---- MODULE Spec2Model ----
(***************************************************************************)
(* Model of the colony configuration resolver (src/src/resolver.js,        *)
(* src/src/index.js utilities, strings.js in src/unnamed/part_005).        *)
(*                                                                         *)
(* JavaScript values are tagged records:                                   *)
(*   [t |-> "undef"]            undefined                                  *)
(*   [t |-> "null"]             null                                       *)
(*   [t |-> "num",  n |-> 1]    number                                     *)
(*   [t |-> "str",  s |-> "x"]  string                                     *)
(*   [t |-> "bool", b |-> TRUE] boolean                                    *)
(*   [t |-> "arr",  a |-> <<..>>]  array                                   *)
(*   [t |-> "obj",  o |-> f]    plain object, f a function key -> value    *)
(* Every tag has its own payload field, so two values of different tags    *)
(* are unequal records and never compare payloads of different types.      *)
(* Object key order is not modelled.                                       *)
(***************************************************************************)
EXTENDS Integers, Sequences, FiniteSets, Bags, TLC

VARIABLES
    rules,      \* input: the rule list handed to resolveRules
    dims,       \* input: declared dimension names
    ctx,        \* input: context, a function from some dimension names to strings
    pc,         \* position inside resolveRules
    candidatesByKey, \* Map keyPathStr -> candidates, as a sequence in insertion order
    postOps,    \* matching += / -= rules
    ki,         \* number of candidatesByKey entries already applied
    pi,         \* number of postOps already applied
    out,        \* the tree under construction
    trace,      \* Map keyPathStr -> trace entry
    winner,     \* the rule the loop body last selected / applied (0 = none yet)
    applied,    \* history: the rules applied so far, in order of application
    written,    \* history: the rules that wrote the tree (called setDeep), in order
    held,       \* the value each rule object holds now (held[i] for the rule on line i)
    shared,     \* the mappings of the tree that are, or are reachable from, a mapping
                \* of a rule's value: links [path in out, line of the rule, path in its value]
    opts,       \* input: vars, env, allowedEnvVars, allowedVars and process.env
    warnings,   \* the warnings array the caller passed in, as a bag
    cfg,        \* finalCfg, the returned tree
    input,      \* the tree handed to the first applySecretsDeep call
    sopts,      \* the options of the applySecretsDeep calls: providers, allowedSecrets,
                \* cache (given or not), cacheTtl, onNotFound
    globalRegistry, \* Map PREFIX -> provider, filled by registerSecretProvider
    regLog,     \* history: the registerSecretProvider, unregisterSecretProvider and
                \* clearSecretProviders calls made, in order
    cache,      \* the SecretCache instance the calls share: maxSize and the entries of
                \* its Map, in insertion order
    now,        \* Date.now()
    calls,      \* the applySecretsDeep calls made so far: value, refs, resolved, the
                \* fetches not settled yet, warnings, status and result of each
    readLog,    \* history: the cache.get calls made, [call, key], in order
    fetchLog,   \* history: the provider.fetch calls made, [call, provider, key] and the
                \* time of the call, in order
    opLog,      \* history: the calls a caller made of the cache's own methods, in order
    fileText,   \* the text handed to parseColony, as text.split(/\r?\n/)
    parser,     \* the locals of the parseColony call: where it stands, the cleaned lines
                \* and lineMap, the loop index, buf and the heredoc state, the rules pushed
                \* and the parse error thrown
    other,      \* the config handed to cfg.diff
    diffed,     \* what the diff calls made so far returned, in order
    disk,       \* the files loadColony can read: what parseColony returns for each, its
                \* includes resolved to the files they match, in the order of the walk
    loader      \* the locals of the loadColony call: its options, process.env.NODE_ENV,
                \* visited, the out list and the dfs calls of expandIncludes under way,
                \* the error thrown

\* the state of the resolver and the state of the secrets stage
resolverVars == <<rules, dims, ctx, pc, candidatesByKey, postOps, ki, pi, out, trace,
                  winner, applied, written, held, shared, opts, warnings, cfg>>
secretVars == <<input, sopts, globalRegistry, regLog, cache, now, calls, readLog, fetchLog, opLog>>
parserVars == <<fileText, parser>>
diffVars == <<other, diffed>>
loaderVars == <<disk, loader>>

vars == <<rules, dims, ctx, pc, candidatesByKey, postOps, ki, pi, out, trace,
          winner, applied, written, held, shared, opts, warnings, cfg,
          input, sopts, globalRegistry, regLog, cache, now, calls, readLog, fetchLog, opLog,
          fileText, parser, other, diffed, disk, loader>>

----------------------------------------------------------------------------
(* Values *)

Undef == [t |-> "undef"]
Null == [t |-> "null"]
Num(n) == [t |-> "num", n |-> n]
Str(s) == [t |-> "str", s |-> s]
Bool(b) == [t |-> "bool", b |-> b]
Arr(a) == [t |-> "arr", a |-> a]
Obj(o) == [t |-> "obj", o |-> o]
EmptyObj == Obj(<<>>)

\* {k: v}
Obj1(k, v) == Obj([x \in {k} |-> v])
\* {k1: v1, k2: v2}
Obj2(k1, v1, k2, v2) == Obj([x \in {k1, k2} |-> IF x = k1 THEN v1 ELSE v2])

isArray(x) == x.t = "arr"

isPlainObject(x) == x.t = "obj"

\* a primitive in the sense of SameValueZero: compared by value, not by identity
isPrimitive(x) == x.t \in {"undef", "null", "num", "str", "bool"}

\* Array index denoted by a property key ("0" is the first element).
IndexKeys == <<"0", "1", "2", "3">>
IsIndexKey(k) == \E i \in 1..Len(IndexKeys) : IndexKeys[i] = k
IndexOfKey(k) == CHOOSE i \in 1..Len(IndexKeys) : IndexKeys[i] = k

\* cur[k] for an object or an array (own properties only)
Prop(cur, k) ==
    IF isPlainObject(cur)
    THEN IF k \in DOMAIN cur.o THEN cur.o[k] ELSE Undef
    ELSE IF k = "length" THEN Num(Len(cur.a))
    ELSE IF IsIndexKey(k) /\ IndexOfKey(k) <= Len(cur.a) THEN cur.a[IndexOfKey(k)]
    ELSE Undef

\* getDeep stopping at null as it does at undefined (cur == null)
RECURSIVE getDeepNullish(_, _)
getDeepNullish(obj, pathSegs) ==
    IF pathSegs = <<>> THEN obj
    ELSE IF ~isPlainObject(obj) /\ ~isArray(obj) THEN Undef
    ELSE LET cur == Prop(obj, Head(pathSegs))
         IN IF cur \in {Undef, Null} THEN Undef ELSE getDeepNullish(cur, Tail(pathSegs))

RECURSIVE getDeep(_, _)
getDeep(obj, pathSegs) ==
    IF pathSegs = <<>> THEN obj
    ELSE IF ~isPlainObject(obj) /\ ~isArray(obj) THEN Undef
    ELSE LET cur == Prop(obj, Head(pathSegs))
         IN IF cur = Undef THEN Undef ELSE getDeep(cur, Tail(pathSegs))

\* obj[k] = v on a plain object
Put(obj, k, v) == Obj([x \in (DOMAIN obj.o) \cup {k} |-> IF x = k THEN v ELSE obj.o[x]])

RECURSIVE setDeep(_, _, _)
setDeep(obj, pathSegs, value) ==
    IF pathSegs = <<>> THEN obj
    ELSE LET k == Head(pathSegs)
         IN IF Len(pathSegs) = 1 THEN Put(obj, k, value)
            ELSE LET child == IF isPlainObject(Prop(obj, k)) THEN Prop(obj, k) ELSE EmptyObj
                 IN Put(obj, k, setDeep(child, Tail(pathSegs), value))

\* deepMerge without the recursion: { ...a, ...b }
deepMergeShallow(a, b) ==
    IF isPlainObject(a) /\ isPlainObject(b)
    THEN Obj([k \in (DOMAIN a.o) \cup (DOMAIN b.o) |->
                IF k \in DOMAIN b.o THEN b.o[k] ELSE a.o[k]])
    ELSE b

RECURSIVE deepMerge(_, _)
deepMerge(a, b) ==
    IF isArray(a) /\ isArray(b) THEN b
    ELSE IF isPlainObject(a) /\ isPlainObject(b)
    THEN Obj([k \in (DOMAIN a.o) \cup (DOMAIN b.o) |->
                IF k \in DOMAIN b.o
                THEN IF k \in DOMAIN a.o THEN deepMerge(a.o[k], b.o[k]) ELSE b.o[k]
                ELSE a.o[k]])
    ELSE b

RECURSIVE clone(_)
clone(v) ==
    IF v.t \in {"null", "undef"} THEN v
    ELSE IF isArray(v) THEN Arr([i \in 1..Len(v.a) |-> clone(v.a[i])])
    ELSE IF isPlainObject(v) THEN Obj([k \in DOMAIN v.o |-> clone(v.o[k])])
    ELSE v

----------------------------------------------------------------------------
(* Sequences and strings *)

\* Array.prototype.slice(from, to) with 0-based, end-exclusive indices
Slice(s, from, to) ==
    LET lo == IF from > Len(s) THEN Len(s) ELSE from
        hi == IF to > Len(s) THEN Len(s) ELSE to
    IN SubSeq(s, lo + 1, hi)

\* Array.prototype.join(".")
RECURSIVE JoinDots(_)
JoinDots(segs) ==
    IF segs = <<>> THEN ""
    ELSE IF Len(segs) = 1 THEN segs[1]
    ELSE segs[1] \o "." \o JoinDots(Tail(segs))

StartsWith(s, p) == Len(s) >= Len(p) /\ SubSeq(s, 1, Len(p)) = p

CharAt(s, i) == SubSeq(s, i, i)

IsSpace(c) == c \in {" ", "\t", "\n", "\r"}

\* String.prototype.trim
RECURSIVE trim(_)
trim(s) ==
    IF s = "" THEN s
    ELSE IF IsSpace(CharAt(s, 1)) THEN trim(SubSeq(s, 2, Len(s)))
    ELSE IF IsSpace(CharAt(s, Len(s))) THEN trim(SubSeq(s, 1, Len(s) - 1))
    ELSE s

\* String(n) for the small numbers of the model
Digits == <<"0", "1", "2", "3", "4", "5", "6", "7", "8", "9">>
RECURSIVE NumToString(_)
NumToString(n) ==
    IF n < 0 THEN "-" \o NumToString(0 - n)
    ELSE IF n < 10 THEN Digits[n + 1]
    ELSE NumToString(n \div 10) \o Digits[(n % 10) + 1]

\* String(v) for a primitive v
String(v) ==
    CASE v.t = "str" -> v.s
      [] v.t = "num" -> NumToString(v.n)
      [] v.t = "bool" -> (IF v.b THEN "true" ELSE "false")
      [] v.t = "null" -> "null"
      [] OTHER -> "undefined"

\* v ?? d
Coalesce(v, d) == IF v.t \in {"undef", "null"} THEN d ELSE v

\* m[k] for a lookup table m (a function from names to values): undefined when absent
Lookup(m, k) == IF k \in DOMAIN m THEN m[k] ELSE Undef

----------------------------------------------------------------------------
(* strings.js: placeholder substitution *)

\* RX_SECRET_PROVIDER = /^[A-Z][A-Z0-9_]*:/
UpperChars == {"A", "B", "C", "D", "E", "F", "G", "H", "I", "J", "K", "L", "M",
               "N", "O", "P", "Q", "R", "S", "T", "U", "V", "W", "X", "Y", "Z"}
DigitChars == {"0", "1", "2", "3", "4", "5", "6", "7", "8", "9"}
RX_SECRET_PROVIDER_IgnoreCase(expr) ==
    LET Letters == UpperChars \cup {"a", "b", "c", "d", "e", "f", "g", "h", "i", "j", "k", "l",
                    "m", "n", "o", "p", "q", "r", "s", "t", "u", "v", "w", "x", "y", "z"}
    IN /\ Len(expr) >= 2
       /\ CharAt(expr, 1) \in Letters
       /\ \E c \in 2..Len(expr) :
             /\ CharAt(expr, c) = ":"
             /\ \A j \in 2..(c - 1) : CharAt(expr, j) \in Letters \cup DigitChars \cup {"_"}

RX_SECRET_PROVIDER(expr) ==
    /\ Len(expr) >= 2
    /\ CharAt(expr, 1) \in UpperChars
    /\ \E c \in 2..Len(expr) :
          /\ CharAt(expr, c) = ":"
          /\ \A j \in 2..(c - 1) : CharAt(expr, j) \in UpperChars \cup DigitChars \cup {"_"}

\* The replacement for one ${...} span when ENV: names are not held against the allow-list
ReplacementEnvUnchecked(match, exprRaw, o) ==
    LET expr == trim(exprRaw)
        k == trim(SubSeq(expr, 5, Len(expr)))
        envSource == IF o.env.given
                     THEN [n \in (DOMAIN o.processEnv) \cup (DOMAIN o.env.map) |->
                             IF n \in DOMAIN o.env.map THEN o.env.map[n] ELSE o.processEnv[n]]
                     ELSE o.processEnv
    IN IF StartsWith(expr, "ENV:")
       THEN [s |-> String(Coalesce(Lookup(envSource, k), Str(""))), w |-> EmptyBag]
       ELSE IF StartsWith(expr, "VAR:")
       THEN IF o.allowedVars.restricted /\ k \notin o.allowedVars.names
            THEN [s |-> "", w |-> SetToBag({[type |-> "blocked_var", var |-> k]})]
            ELSE [s |-> String(Coalesce(Lookup(o.vars, k), Str(""))),
                  w |-> IF Lookup(o.vars, k) = Undef
                        THEN SetToBag({[type |-> "unknown_var", var |-> k]})
                        ELSE EmptyBag]
       ELSE IF StartsWith(expr, "ctx.")
       THEN [s |-> String(Coalesce(Lookup(o.ctx, k), Str(""))),
             w |-> IF Lookup(o.ctx, k) = Undef
                   THEN SetToBag({[type |-> "unknown_ctx", var |-> k]})
                   ELSE EmptyBag]
       ELSE IF RX_SECRET_PROVIDER(expr)
       THEN [s |-> match, w |-> EmptyBag]
       ELSE [s |-> "", w |-> SetToBag({[type |-> "unknown_interpolation", pattern |-> match]})]

\* The replacement for one ${...} span: [s |-> replacement, w |-> warnings pushed]
Replacement(match, exprRaw, o) ==
    LET expr == trim(exprRaw)
        k == trim(SubSeq(expr, 5, Len(expr)))
        envSource == IF o.env.given
                     THEN [n \in (DOMAIN o.processEnv) \cup (DOMAIN o.env.map) |->
                             IF n \in DOMAIN o.env.map THEN o.env.map[n] ELSE o.processEnv[n]]
                     ELSE o.processEnv
    IN IF StartsWith(expr, "ENV:")
       THEN IF o.allowedEnvVars.restricted /\ k \notin o.allowedEnvVars.names
            THEN [s |-> "", w |-> SetToBag({[type |-> "blocked_env_var", var |-> k]})]
            ELSE [s |-> String(Coalesce(Lookup(envSource, k), Str(""))), w |-> EmptyBag]
       ELSE IF StartsWith(expr, "VAR:")
       THEN IF o.allowedVars.restricted /\ k \notin o.allowedVars.names
            THEN [s |-> "", w |-> SetToBag({[type |-> "blocked_var", var |-> k]})]
            ELSE [s |-> String(Coalesce(Lookup(o.vars, k), Str(""))),
                  w |-> IF Lookup(o.vars, k) = Undef
                        THEN SetToBag({[type |-> "unknown_var", var |-> k]})
                        ELSE EmptyBag]
       ELSE IF StartsWith(expr, "ctx.")
       THEN [s |-> String(Coalesce(Lookup(o.ctx, k), Str(""))),
             w |-> IF Lookup(o.ctx, k) = Undef
                   THEN SetToBag({[type |-> "unknown_ctx", var |-> k]})
                   ELSE EmptyBag]
       ELSE IF RX_SECRET_PROVIDER(expr)
       THEN [s |-> match, w |-> EmptyBag]
       ELSE [s |-> "", w |-> SetToBag({[type |-> "unknown_interpolation", pattern |-> match]})]

\* Does /\$\{([^}]+)\}/ match at position p of s?
SpanAt(s, p) ==
    /\ p + 3 <= Len(s)
    /\ SubSeq(s, p, p + 1) = "${"
    /\ CharAt(s, p + 2) # "}"
    /\ \E q \in (p + 3)..Len(s) : CharAt(s, q) = "}"

\* Index of the "}" closing the span that starts at p
SpanEnd(s, p) ==
    CHOOSE q \in (p + 3)..Len(s) :
        CharAt(s, q) = "}" /\ \A j \in (p + 3)..(q - 1) : CharAt(s, j) # "}"

\* The same replace when "$$" is read as an escape for "$"
RECURSIVE ReplaceFromUnescaping(_, _, _)
ReplaceFromUnescaping(s, i, o) ==
    IF i > Len(s) THEN [s |-> "", w |-> EmptyBag]
    ELSE IF SpanAt(s, i)
    THEN LET q == SpanEnd(s, i)
             r == Replacement(SubSeq(s, i, q), SubSeq(s, i + 2, q - 1), o)
             rest == ReplaceFromUnescaping(s, q + 1, o)
         IN [s |-> r.s \o rest.s, w |-> r.w (+) rest.w]
    ELSE IF i < Len(s) /\ SubSeq(s, i, i + 1) = "$$"
    THEN LET rest == ReplaceFromUnescaping(s, i + 2, o)
         IN [s |-> "$" \o rest.s, w |-> rest.w]
    ELSE LET rest == ReplaceFromUnescaping(s, i + 1, o)
         IN [s |-> CharAt(s, i) \o rest.s, w |-> rest.w]

\* s.replace(/\$\{([^}]+)\}/g, ...) from position i on: [s |-> text, w |-> warnings]
RECURSIVE ReplaceFrom(_, _, _)
ReplaceFrom(s, i, o) ==
    IF i > Len(s) THEN [s |-> "", w |-> EmptyBag]
    ELSE IF SpanAt(s, i)
    THEN LET q == SpanEnd(s, i)
             r == Replacement(SubSeq(s, i, q), SubSeq(s, i + 2, q - 1), o)
             rest == ReplaceFrom(s, q + 1, o)
         IN [s |-> r.s \o rest.s, w |-> r.w (+) rest.w]
    ELSE LET rest == ReplaceFrom(s, i + 1, o)
         IN [s |-> CharAt(s, i) \o rest.s, w |-> rest.w]

\* interpolate(s, {...}): [s |-> the new string, w |-> the warnings pushed]
interpolate(s, o) == ReplaceFrom(s, 1, o)

\* applyInterpolationDeep(value, {...}): [v |-> the new value, w |-> the warnings pushed]
RECURSIVE applyInterpolationDeep(_, _)
RECURSIVE SumBags(_, _)
SumBags(f, D) ==
    IF D = {} THEN EmptyBag
    ELSE LET d == CHOOSE x \in D : TRUE IN f[d].w (+) SumBags(f, D \ {d})

applyInterpolationDeep(value, o) ==
    IF value.t = "str"
    THEN LET r == interpolate(value.s, o) IN [v |-> Str(r.s), w |-> r.w]
    ELSE IF isArray(value)
    THEN LET rs == [i \in 1..Len(value.a) |-> applyInterpolationDeep(value.a[i], o)]
         IN [v |-> Arr([i \in 1..Len(value.a) |-> rs[i].v]), w |-> SumBags(rs, 1..Len(value.a))]
    ELSE IF isPlainObject(value)
    THEN LET rs == [k \in DOMAIN value.o |-> applyInterpolationDeep(value.o[k], o)]
         IN [v |-> Obj([k \in DOMAIN value.o |-> rs[k].v]), w |-> SumBags(rs, DOMAIN value.o)]
    ELSE [v |-> value, w |-> EmptyBag]

----------------------------------------------------------------------------
(* resolver.js: resolveRules *)

\* A rule as the parser produces it:
\*   [filePath, line, col, keySegments, op, value]
\* and as resolveRules indexes it: the same plus scope, keyPath and keyPathStr.

\* matches with an empty context value accepted by every token
matchesEmptyAsAny(ruleScope, ctxScope) ==
    \A i \in 1..Len(ruleScope) :
        ruleScope[i] = "*" \/ ctxScope[i] = "" \/ ruleScope[i] = ctxScope[i]

matches(ruleScope, ctxScope) ==
    \A i \in 1..Len(ruleScope) : ruleScope[i] = "*" \/ ruleScope[i] = ctxScope[i]

\* specificity counting the '*' tokens instead
RECURSIVE specificityOfWildcards(_)
specificityOfWildcards(ruleScope) ==
    IF ruleScope = <<>> THEN 0
    ELSE (IF Head(ruleScope) = "*" THEN 1 ELSE 0) + specificityOfWildcards(Tail(ruleScope))

RECURSIVE specificity(_)
specificity(ruleScope) ==
    IF ruleScope = <<>> THEN 0
    ELSE (IF Head(ruleScope) # "*" THEN 1 ELSE 0) + specificity(Tail(ruleScope))

packTrace(rule, spec) ==
    [op |-> rule.op,
     scope |-> rule.scope,
     specificity |-> spec,
     filePath |-> rule.filePath,
     line |-> rule.line,
     col |-> rule.col]

\* Lines 7-21: one rule with its scope and key path split off
IndexRule(r, nDims) ==
    LET scope == Slice(r.keySegments, 0, nDims)
        keyPath == Slice(r.keySegments, nDims, Len(r.keySegments))
    IN [filePath |-> r.filePath, line |-> r.line, col |-> r.col,
        keySegments |-> r.keySegments, op |-> r.op, value |-> r.value,
        scope |-> scope, keyPath |-> keyPath, keyPathStr |-> JoinDots(keyPath)]

\* Malformed checking the scope length alone
MalformedScopeOnly(r, nDims) == Len(IndexRule(r, nDims).scope) # nDims

\* Line 10: the structural check that makes resolveRules throw
Malformed(r, nDims) ==
    LET x == IndexRule(r, nDims)
    IN Len(x.scope) # nDims \/ Len(x.keyPath) = 0

\* Line 24
CtxScope(ds, c) == [i \in 1..Len(ds) |-> String(Coalesce(Lookup(c, ds[i]), Str("")))]

\* position of key in the Map (0 when absent)
MapIndex(map, key) ==
    IF \E i \in 1..Len(map) : map[i].key = key
    THEN CHOOSE i \in 1..Len(map) : map[i].key = key
    ELSE 0

\* Lines 34-35: push r on the candidate list of its key, creating it at the end of the Map
\* a map that moves a key to its end whenever a candidate is added to it
PushCandidateLast(map, r) ==
    LET i == MapIndex(map, r.keyPathStr)
    IN IF i = 0 THEN Append(map, [key |-> r.keyPathStr, cand |-> <<r>>])
       ELSE SubSeq(map, 1, i - 1) \o SubSeq(map, i + 1, Len(map))
            \o <<[key |-> r.keyPathStr, cand |-> Append(map[i].cand, r)]>>

PushCandidate(map, r) ==
    LET i == MapIndex(map, r.keyPathStr)
    IN IF i = 0 THEN Append(map, [key |-> r.keyPathStr, cand |-> <<r>>])
       ELSE [map EXCEPT ![i].cand = Append(@, r)]

\* Lines 29-37 over the first n indexed rules: [map |-> candidatesByKey, post |-> postOps]
RECURSIVE Partition(_, _, _)
Partition(indexed, ctxScope, n) ==
    IF n = 0 THEN [map |-> <<>>, post |-> <<>>]
    ELSE LET prev == Partition(indexed, ctxScope, n - 1)
             r == indexed[n]
         IN IF ~matches(r.scope, ctxScope) THEN prev
            ELSE IF r.op \in {"+=", "-="} THEN [prev EXCEPT !.post = Append(@, r)]
            ELSE [prev EXCEPT !.map = PushCandidate(@, r)]

\* WinnerIndex without the branch of line 50: on a tie the earlier candidate stays
RECURSIVE WinnerIndexFirstOnTie(_, _)
WinnerIndexFirstOnTie(cand, n) ==
    IF n = 1 THEN 1
    ELSE LET w == WinnerIndexFirstOnTie(cand, n - 1)
         IN IF specificity(cand[n].scope) > specificity(cand[w].scope) THEN n ELSE w

\* Lines 43-53 over the first n candidates: the index of the winner
RECURSIVE WinnerIndex(_, _)
WinnerIndex(cand, n) ==
    IF n = 1 THEN 1
    ELSE LET w == WinnerIndex(cand, n - 1)
         IN IF specificity(cand[n].scope) > specificity(cand[w].scope) THEN n
            ELSE IF specificity(cand[n].scope) = specificity(cand[w].scope) THEN n
            ELSE w

\* Lines 43-53: the winner among the candidates of one key
SelectWinner(cand) == cand[WinnerIndex(cand, Len(cand))]

\* ApplyPrimary with trace.set after the if of line 58: a := winner that finds a value
\* still records its trace entry
ApplyPrimaryAlwaysTraces(o, tr, key, w) ==
    LET existing == getDeep(o, w.keyPath)
        entry == packTrace(w, specificity(w.scope))
        traced == [k \in (DOMAIN tr) \cup {key} |-> IF k = key THEN entry ELSE tr[k]]
    IN IF w.op = ":=" /\ existing # Undef THEN [out |-> o, trace |-> traced]
       ELSE IF w.op = "|=" /\ existing # Undef /\ isPlainObject(existing) /\ isPlainObject(w.value)
       THEN [out |-> setDeep(o, w.keyPath, deepMerge(existing, w.value)), trace |-> traced]
       ELSE [out |-> setDeep(o, w.keyPath, clone(w.value)), trace |-> traced]

\* Lines 55-78: what applying the winner does to out and trace
ApplyPrimary(o, tr, key, w) ==
    LET existing == getDeep(o, w.keyPath)
        best == specificity(w.scope)
        entry == packTrace(w, best)
        traced == [k \in (DOMAIN tr) \cup {key} |-> IF k = key THEN entry ELSE tr[k]]
    IN IF w.op = ":="
       THEN IF existing = Undef
            THEN [out |-> setDeep(o, w.keyPath, clone(w.value)), trace |-> traced]
            ELSE [out |-> o, trace |-> tr]
       ELSE IF w.op = "|="
       THEN IF existing = Undef
            THEN [out |-> setDeep(o, w.keyPath, clone(w.value)), trace |-> traced]
            ELSE IF isPlainObject(existing) /\ isPlainObject(w.value)
            THEN [out |-> setDeep(o, w.keyPath, deepMerge(existing, w.value)), trace |-> traced]
            ELSE [out |-> setDeep(o, w.keyPath, clone(w.value)), trace |-> traced]
       ELSE [out |-> setDeep(o, w.keyPath, clone(w.value)), trace |-> traced]

\* Line 81: postOps.sort by ascending specificity (Array.prototype.sort is stable)
\* InsertSorted for the comparator b - a: descending specificity
RECURSIVE InsertSortedDescending(_, _)
InsertSortedDescending(sorted, r) ==
    IF sorted = <<>> THEN <<r>>
    ELSE IF specificity(r.scope) - specificity(sorted[Len(sorted)].scope) > 0
    THEN Append(InsertSortedDescending(SubSeq(sorted, 1, Len(sorted) - 1), r),
                sorted[Len(sorted)])
    ELSE Append(sorted, r)

RECURSIVE InsertSorted(_, _)
InsertSorted(sorted, r) ==
    IF sorted = <<>> THEN <<r>>
    ELSE IF specificity(sorted[Len(sorted)].scope) - specificity(r.scope) > 0
    THEN Append(InsertSorted(SubSeq(sorted, 1, Len(sorted) - 1), r), sorted[Len(sorted)])
    ELSE Append(sorted, r)

RECURSIVE SortBySpecificity(_, _)
SortBySpecificity(ops, n) ==
    IF n = 0 THEN <<>> ELSE InsertSorted(SortBySpecificity(ops, n - 1), ops[n])

\* AsList wrapping every value, arrays too: [val]
AsListWrapped(val) == <<val>>

\* Line 91 / line 100: Array.isArray(val) ? val : [val]
AsList(val) == IF isArray(val) THEN val.a ELSE <<val>>

\* Line 102: existing.filter((x) => !remove.has(x)); Set membership is SameValueZero,
\* so only primitives can be found in the set (val is a fresh clone)
RECURSIVE FilterNotIn(_, _)
FilterNotIn(elems, remove) ==
    IF elems = <<>> THEN <<>>
    ELSE LET x == Head(elems)
             hit == isPrimitive(x) /\ \E j \in 1..Len(remove) : remove[j] = x
         IN (IF hit THEN <<>> ELSE <<x>>) \o FilterNotIn(Tail(elems), remove)

\* ApplyDeferred whose -= coerces a non-array existing value as += does
ApplyDeferredRemoveCoerces(o, tr, r) ==
    LET key == r.keyPathStr
        existing == getDeep(o, r.keyPath)
        val == clone(r.value)
        entry == packTrace(r, specificity(r.scope))
        traced == [k \in (DOMAIN tr) \cup {key} |-> IF k = key THEN entry ELSE tr[k]]
        have == IF existing = Undef THEN <<>>
                ELSE IF isArray(existing) THEN existing.a ELSE <<existing>>
    IN IF r.op = "+="
       THEN [out |-> setDeep(o, r.keyPath, Arr(have \o AsList(val))), trace |-> traced]
       ELSE [out |-> setDeep(o, r.keyPath, Arr(FilterNotIn(have, AsList(val)))), trace |-> traced]

\* ApplyDeferred without the trace.set of lines 95 and 103
ApplyDeferredNoTrace(o, tr, r) ==
    LET existing == getDeep(o, r.keyPath)
        val == clone(r.value)
        have == IF existing = Undef THEN <<>>
                ELSE IF isArray(existing) THEN existing.a ELSE <<existing>>
    IN IF r.op = "+="
       THEN [out |-> setDeep(o, r.keyPath, Arr(have \o AsList(val))), trace |-> tr]
       ELSE IF r.op = "-=" /\ isArray(existing)
       THEN [out |-> setDeep(o, r.keyPath, Arr(FilterNotIn(existing.a, AsList(val)))),
             trace |-> tr]
       ELSE [out |-> o, trace |-> tr]

\* ApplyDeferred recording a trace entry only for a key that has none yet
ApplyDeferredKeepsTrace(o, tr, r) ==
    LET done == ApplyDeferredNoTrace(o, tr, r)
        key == r.keyPathStr
        entry == packTrace(r, specificity(r.scope))
    IN IF key \in DOMAIN tr \/ (r.op = "-=" /\ ~isArray(getDeep(o, r.keyPath))) THEN done
       ELSE [out |-> done.out,
             trace |-> [k \in (DOMAIN tr) \cup {key} |-> IF k = key THEN entry ELSE tr[k]]]

\* Lines 84-106: what applying one deferred rule does to out and trace
ApplyDeferred(o, tr, r) ==
    LET key == r.keyPathStr
        best == specificity(r.scope)
        existing == getDeep(o, r.keyPath)
        val == clone(r.value)
        entry == packTrace(r, best)
        traced == [k \in (DOMAIN tr) \cup {key} |-> IF k = key THEN entry ELSE tr[k]]
    IN IF r.op = "+="
       THEN LET add == AsList(val)
            IN IF existing = Undef
               THEN [out |-> setDeep(o, r.keyPath, Arr(add)), trace |-> traced]
               ELSE IF isArray(existing)
               THEN [out |-> setDeep(o, r.keyPath, Arr(existing.a \o add)), trace |-> traced]
               ELSE [out |-> setDeep(o, r.keyPath, Arr(<<existing>> \o add)), trace |-> traced]
       ELSE IF r.op = "-="
       THEN IF isArray(existing)
            THEN [out |-> setDeep(o, r.keyPath, Arr(FilterNotIn(existing.a, AsList(val)))),
                  trace |-> traced]
            ELSE [out |-> o, trace |-> tr]
       ELSE [out |-> o, trace |-> tr]

\* ApplyEntry applying the losing candidates, in rule order, before the winner
RECURSIVE ApplyLosers(_, _, _, _)
ApplyLosers(o, tr, entry, n) ==
    IF n = 0 THEN [out |-> o, trace |-> tr]
    ELSE LET prev == ApplyLosers(o, tr, entry, n - 1)
         IN IF n = WinnerIndex(entry.cand, Len(entry.cand)) THEN prev
            ELSE ApplyPrimary(prev.out, prev.trace, entry.key, entry.cand[n])

ApplyEntryAfterLosers(o, tr, entry) ==
    LET prev == ApplyLosers(o, tr, entry, Len(entry.cand))
    IN ApplyPrimary(prev.out, prev.trace, entry.key, SelectWinner(entry.cand))

\* Lines 42-79, one iteration: select the winner of one Map entry and apply it
ApplyEntry(o, tr, entry) == ApplyPrimary(o, tr, entry.key, SelectWinner(entry.cand))

\* Lines 5-22: every rule indexed
IndexAll(rs, nDims) == [i \in 1..Len(rs) |-> IndexRule(rs[i], nDims)]

\* Lines 42-79 over the first n Map entries
RECURSIVE ApplyEntries(_, _)
ApplyEntries(map, n) ==
    IF n = 0 THEN [out |-> EmptyObj, trace |-> <<>>]
    ELSE LET prev == ApplyEntries(map, n - 1)
         IN ApplyEntry(prev.out, prev.trace, map[n])

\* Lines 83-107 over the first n sorted postOps, starting from the primary result
RECURSIVE ApplyPostOps(_, _, _)
ApplyPostOps(start, sorted, n) ==
    IF n = 0 THEN start
    ELSE LET prev == ApplyPostOps(start, sorted, n - 1)
         IN ApplyDeferred(prev.out, prev.trace, sorted[n])

\* resolveRules as a function of its input (lines 4-109), for a call that does not throw:
\* [out, trace, cfg, warnings]
resolveRules(rs, ds, c, o) ==
    LET indexed == IndexAll(rs, Len(ds))
        parts == Partition(indexed, CtxScope(ds, c), Len(indexed))
        primary == ApplyEntries(parts.map, Len(parts.map))
        sorted == SortBySpecificity(parts.post, Len(parts.post))
        final == ApplyPostOps(primary, sorted, Len(sorted))
        interp == applyInterpolationDeep(final.out,
                     [ctx |-> c, vars |-> o.vars, env |-> o.env, processEnv |-> o.processEnv,
                      allowedEnvVars |-> o.allowedEnvVars, allowedVars |-> o.allowedVars])
    IN [out |-> final.out, trace |-> final.trace, cfg |-> interp.v, warnings |-> interp.w]

----------------------------------------------------------------------------
(* Object identity: which mappings of the tree are mappings of a rule's value *)

\* clone() gives the tree fresh objects; deepMerge (index.js 502-512) does not: it returns
\* b itself, or puts b's members into its result as they are. A mapping of a rule's
\* value that got into the tree this way is one object with two owners, and setDeep
\* writing into it through the tree (cur[k] = value, index.js 494 and 497) writes into
\* the rule's value. Arrays are never written in place (concat and filter build new
\* ones, setDeep does not descend into them), so only mappings are followed.

IsPrefix(q, p) == Len(q) <= Len(p) /\ SubSeq(p, 1, Len(q)) = q

\* the paths, through mappings only, of the mappings in v (<<>> for v itself)
RECURSIVE PlainPaths(_)
PlainPaths(v) ==
    IF ~isPlainObject(v) THEN {}
    ELSE {<<>>} \cup UNION {{<<k>> \o r : r \in PlainPaths(v.o[k])} : k \in DOMAIN v.o}

\* the mappings of b, found at path at of a rule's value, that deepMerge(a, b) puts
\* into its result as they are: [rel |-> path in the result, at |-> path in the value]
RECURSIVE MergeLinks(_, _, _)
MergeLinks(a, b, at) ==
    IF isArray(a) /\ isArray(b) THEN {}
    ELSE IF isPlainObject(a) /\ isPlainObject(b)
    THEN UNION {LET below == IF k \in DOMAIN a.o
                             THEN MergeLinks(a.o[k], b.o[k], at \o <<k>>)
                             ELSE MergeLinks(Undef, b.o[k], at \o <<k>>)
                IN {[rel |-> <<k>> \o l.rel, at |-> l.at] : l \in below}
                : k \in DOMAIN b.o}
    ELSE {[rel |-> r, at |-> at \o r] : r \in PlainPaths(b)}

\* the object at path r (not empty) of a is still that object in deepMerge(a, b):
\* its key is not in b, or the merge recursed through mappings on both sides above it
RECURSIVE Survives(_, _, _)
Survives(a, b, r) ==
    IF ~(isPlainObject(a) /\ isPlainObject(b)) THEN FALSE
    ELSE IF Head(r) \notin DOMAIN b.o THEN TRUE
    ELSE IF Len(r) = 1 \/ Head(r) \notin DOMAIN a.o THEN FALSE
    ELSE Survives(a.o[Head(r)], b.o[Head(r)], Tail(r))

\* setDeep(o, p, ...): the index i of the first assignment cur[p[i]] = ..., the last
\* segment or the first one under which there is no mapping yet
RECURSIVE WriteDepth(_, _, _)
WriteDepth(cur, p, i) ==
    IF i >= Len(p) THEN i
    ELSE IF isPlainObject(Prop(cur, p[i])) THEN WriteDepth(Prop(cur, p[i]), p, i + 1)
    ELSE i

\* setDeep(o, p, v) on the heap: v is deepMerge(existing, b) for the rule on line ln when
\* merged, a fresh value otherwise. [held, shared] afterwards.
Rewire(o, hl, sh, p, v, merged, b, ln) ==
    IF p = <<>> THEN [held |-> hl, shared |-> sh]
    ELSE
    LET i == WriteDepth(o, p, 1)
        q == SubSeq(p, 1, i - 1)
        top == SubSeq(p, 1, i)
        existing == getDeep(o, p)
        through == {l \in sh : l.path = q}
        kept == {l \in sh :
                    \/ ~IsPrefix(top, l.path)
                    \/ /\ merged
                       /\ Len(l.path) > Len(p)
                       /\ Survives(existing, b, SubSeq(l.path, Len(p) + 1, Len(l.path)))}
        placed == IF merged
                  THEN {[path |-> p \o l.rel, line |-> ln, at |-> l.at] :
                           l \in MergeLinks(existing, b, <<>>)}
                  ELSE {}
        spread == UNION {{[path |-> top \o r, line |-> l.line, at |-> l.at \o <<p[i]>> \o r] :
                             r \in PlainPaths(getDeep(setDeep(o, p, v), top))}
                         : l \in through}
    IN [held |-> [n \in DOMAIN hl |->
                    IF \E l \in through : l.line = n
                    THEN LET l == CHOOSE x \in through : x.line = n
                         IN setDeep(hl[n], l.at \o SubSeq(p, i, Len(p)), v)
                    ELSE hl[n]],
        shared |-> kept \cup placed \cup spread]

\* Lines 57-78: does applying the winner w call setDeep?
PrimaryWrites(o, w) == ~(w.op = ":=" /\ getDeep(o, w.keyPath) # Undef)

\* Lines 55-78 on the heap
PrimaryHeap(o, hl, sh, w) ==
    LET existing == getDeep(o, w.keyPath)
        merged == w.op = "|=" /\ existing # Undef /\ isPlainObject(existing)
                      /\ isPlainObject(w.value)
    IN IF ~PrimaryWrites(o, w) THEN [held |-> hl, shared |-> sh]
       ELSE IF merged
       THEN Rewire(o, hl, sh, w.keyPath, deepMerge(existing, w.value), TRUE, w.value, w.line)
       ELSE Rewire(o, hl, sh, w.keyPath, clone(w.value), FALSE, Undef, w.line)

\* Lines 90-104: does applying the deferred rule r call setDeep?
DeferredWrites(o, r) == r.op = "+=" \/ (r.op = "-=" /\ isArray(getDeep(o, r.keyPath)))

\* Lines 84-106 on the heap
DeferredHeap(o, hl, sh, r) ==
    IF ~DeferredWrites(o, r) THEN [held |-> hl, shared |-> sh]
    ELSE Rewire(o, hl, sh, r.keyPath, getDeep(ApplyDeferred(o, <<>>, r).out, r.keyPath),
                FALSE, Undef, r.line)

\* Lines 153-167: the leaf paths of obj in dot notation, below prefix. The result is
\* kept as a set: the order keys.sort() gives it is not modelled.
RECURSIVE collectKeys(_, _)
collectKeys(obj, prefix) ==
    UNION {LET path == IF prefix # "" THEN prefix \o "." \o k ELSE k
           IN IF isPlainObject(obj.o[k]) THEN collectKeys(obj.o[k], path) ELSE {path}
           : k \in DOMAIN obj.o}

\* Lines 246-249: trace.get(key) ?? null
explainByPath(tr, p) == IF p \in DOMAIN tr THEN tr[p] ELSE Null

\* String(p).split("."): the pieces between the dots, empty ones included
RECURSIVE SplitDots(_, _, _)
SplitDots(p, i, current) ==
    IF i > Len(p) THEN <<current>>
    ELSE IF CharAt(p, i) = "." THEN <<current>> \o SplitDots(p, i + 1, "")
    ELSE SplitDots(p, i + 1, current \o CharAt(p, i))

\* Lines 241-244: the empty pieces are filtered out
getByPath(obj, p) ==
    getDeep(obj, SelectSeq(SplitDots(p, 1, ""), LAMBDA seg : seg # ""))

\* the characters of the model's strings in the order of their UTF-16 code units, which
\* is also the order localeCompare gives the dot, the digits and the lower-case letters
CodeUnits == ".0123456789ABCDEFGHIJKLMNOPQRSTUVWXYZ_abcdefghijklmnopqrstuvwxyz"
CodeOf(ch) == CHOOSE i \in 1..Len(CodeUnits) : CharAt(CodeUnits, i) = ch

\* x < y in the default order of Array.prototype.sort
RECURSIVE LessStr(_, _)
LessStr(x, y) ==
    IF y = "" THEN FALSE
    ELSE IF x = "" THEN TRUE
    ELSE IF CharAt(x, 1) # CharAt(y, 1) THEN CodeOf(CharAt(x, 1)) < CodeOf(CharAt(y, 1))
    ELSE LessStr(SubSeq(x, 2, Len(x)), SubSeq(y, 2, Len(y)))

\* keys.sort() on the strings of a set
RECURSIVE SortStrings(_)
SortStrings(S) ==
    IF S = {} THEN <<>>
    ELSE LET least == CHOOSE x \in S : \A y \in S \ {x} : LessStr(x, y)
         IN <<least>> \o SortStrings(S \ {least})

\* typeof
typeOf(x) ==
    CASE x.t = "undef" -> "undefined"
      [] x.t = "num" -> "number"
      [] x.t = "str" -> "string"
      [] x.t = "bool" -> "boolean"
      [] OTHER -> "object"

\* Object.keys of an object or an array
OwnKeys(x) == IF isArray(x) THEN {IndexKeys[i] : i \in 1..Len(x.a)} ELSE DOMAIN x.o

\* Lines 216-239. a === b holds of two primitives of one value and of an object and
\* itself, which the comparison that follows finds equal as well.
RECURSIVE deepEqual(_, _)
deepEqual(a, b) ==
    IF isPrimitive(a) /\ a = b THEN TRUE
    ELSE IF typeOf(a) # typeOf(b) THEN FALSE
    ELSE IF a = Null \/ b = Null THEN a = b
    ELSE IF isArray(a) /\ isArray(b)
    THEN /\ Len(a.a) = Len(b.a)
         /\ \A i \in 1..Len(a.a) : deepEqual(a.a[i], b.a[i])
    ELSE IF typeOf(a) = "object" /\ typeOf(b) = "object"
    THEN /\ Cardinality(OwnKeys(a)) = Cardinality(OwnKeys(b))
         /\ \A k \in OwnKeys(a) : deepEqual(Prop(a, k), Prop(b, k))
    ELSE FALSE

\* Lines 175-214
diffConfigs(a, b) ==
    LET aKeys == collectKeys(a, "")
        bKeys == collectKeys(b, "")
        added == {key \in bKeys : key \notin aKeys}
        removed == {key \in aKeys : key \notin bKeys}
        changed == {key \in aKeys : key \in bKeys
                                     /\ ~deepEqual(getByPath(a, key), getByPath(b, key))}
        sorted == SortStrings(changed)
    IN [added |-> SortStrings(added),
        removed |-> SortStrings(removed),
        changed |-> [i \in 1..Len(sorted) |->
                       [key |-> sorted[i], from |-> getByPath(a, sorted[i]),
                        to |-> getByPath(b, sorted[i])]]]

\* cfg.diff(other) on a returned config (lines 134-137)
diff ==
    /\ pc = "done"
    /\ other # Undef
    /\ diffed = <<>>
    /\ diffed' = <<diffConfigs(cfg, other)>>
    /\ UNCHANGED <<other, loaderVars, parserVars, resolverVars, secretVars>>

\* other.diff(cfg): the same call the other way round
diffBack ==
    /\ pc = "done"
    /\ other # Undef
    /\ Len(diffed) = 1
    /\ diffed' = Append(diffed, diffConfigs(other, cfg))
    /\ UNCHANGED <<other, loaderVars, parserVars, resolverVars, secretVars>>

NextDiff == diff \/ diffBack

----------------------------------------------------------------------------
(* The run of one resolveRules call *)

NoRule == [filePath |-> "", line |-> 0, col |-> 0, keySegments |-> <<>>, op |-> "",
           value |-> Undef, scope |-> <<>>, keyPath |-> <<>>, keyPathStr |-> ""]

\* Lines 5-37: validate and index every rule, then partition the matching ones
IndexRules ==
    /\ pc = "start"
    /\ IF \E i \in 1..Len(rules) : Malformed(rules[i], Len(dims))
       THEN /\ pc' = "error"
            /\ UNCHANGED <<candidatesByKey, postOps>>
       ELSE LET indexed == IndexAll(rules, Len(dims))
                parts == Partition(indexed, CtxScope(dims, ctx), Len(indexed))
            IN /\ candidatesByKey' = parts.map
               /\ postOps' = parts.post
               /\ pc' = "primary"
    /\ UNCHANGED <<diffVars, loaderVars, parserVars, secretVars, rules, dims, ctx, opts, ki, pi, out, trace, winner, applied, written,
                   held, shared, warnings, cfg>>

\* Lines 42-79: one iteration of the loop over candidatesByKey
ApplyWinner ==
    /\ pc = "primary"
    /\ ki < Len(candidatesByKey)
    /\ LET entry == candidatesByKey[ki + 1]
           r == ApplyEntry(out, trace, entry)
       IN /\ out' = r.out
          /\ trace' = r.trace
          /\ winner' = SelectWinner(entry.cand)
          /\ applied' = Append(applied, SelectWinner(entry.cand).line)
          /\ written' = IF PrimaryWrites(out, SelectWinner(entry.cand))
                        THEN Append(written, SelectWinner(entry.cand).line)
                        ELSE written
          /\ held' = PrimaryHeap(out, held, shared, SelectWinner(entry.cand)).held
          /\ shared' = PrimaryHeap(out, held, shared, SelectWinner(entry.cand)).shared
    /\ ki' = ki + 1
    /\ UNCHANGED <<diffVars, loaderVars, parserVars, secretVars, rules, dims, ctx, opts, pc, candidatesByKey, postOps, pi, warnings, cfg>>

\* Line 81: the primary loop is over; sort the deferred rules
SortPostOps ==
    /\ pc = "primary"
    /\ ki = Len(candidatesByKey)
    /\ postOps' = SortBySpecificity(postOps, Len(postOps))
    /\ pc' = "post"
    /\ UNCHANGED <<diffVars, loaderVars, parserVars, secretVars, rules, dims, ctx, opts, candidatesByKey, ki, pi, out, trace, winner,
                   applied, written, held, shared, warnings, cfg>>

\* Lines 83-107: one iteration of the loop over postOps
ApplyPostOp ==
    /\ pc = "post"
    /\ pi < Len(postOps)
    /\ LET r == ApplyDeferred(out, trace, postOps[pi + 1])
       IN /\ out' = r.out
          /\ trace' = r.trace
    /\ winner' = postOps[pi + 1]
    /\ applied' = Append(applied, postOps[pi + 1].line)
    /\ written' = IF DeferredWrites(out, postOps[pi + 1])
                  THEN Append(written, postOps[pi + 1].line)
                  ELSE written
    /\ held' = DeferredHeap(out, held, shared, postOps[pi + 1]).held
    /\ shared' = DeferredHeap(out, held, shared, postOps[pi + 1]).shared
    /\ pi' = pi + 1
    /\ UNCHANGED <<diffVars, loaderVars, parserVars, secretVars, rules, dims, ctx, opts, pc, candidatesByKey, postOps, ki, warnings, cfg>>

\* Lines 109-144: interpolate the tree and return it
Finish ==
    /\ pc = "post"
    /\ pi = Len(postOps)
    /\ LET r == applyInterpolationDeep(out,
                   [ctx |-> ctx, vars |-> opts.vars, env |-> opts.env,
                    processEnv |-> opts.processEnv,
                    allowedEnvVars |-> opts.allowedEnvVars, allowedVars |-> opts.allowedVars])
       IN /\ cfg' = r.v
          /\ warnings' = warnings (+) r.w
    /\ pc' = "done"
    /\ UNCHANGED <<diffVars, loaderVars, parserVars, secretVars, rules, dims, ctx, opts, candidatesByKey, postOps, ki, pi, out, trace,
                   winner, applied, written, held, shared>>

Next == IndexRules \/ ApplyWinner \/ SortPostOps \/ ApplyPostOp \/ Finish

----------------------------------------------------------------------------
(* secrets.js: providers, SecretCache, applySecretsDeep *)

\* String.prototype.toUpperCase on the letters of the model
Lower == <<"a", "b", "c", "d", "e", "f", "g", "h", "i", "j", "k", "l", "m",
           "n", "o", "p", "q", "r", "s", "t", "u", "v", "w", "x", "y", "z">>
Upper == <<"A", "B", "C", "D", "E", "F", "G", "H", "I", "J", "K", "L", "M",
           "N", "O", "P", "Q", "R", "S", "T", "U", "V", "W", "X", "Y", "Z">>
RECURSIVE toUpperCase(_)
toUpperCase(s) ==
    IF s = "" THEN ""
    ELSE LET c == CharAt(s, 1)
             u == IF \E i \in 1..26 : Lower[i] = c
                  THEN Upper[CHOOSE i \in 1..26 : Lower[i] = c] ELSE c
         IN u \o toUpperCase(SubSeq(s, 2, Len(s)))

\* Lines 587-625, class SecretCache: the Map as a sequence of [key, value, expires]
NewSecretCache(maxSize) == [maxSize |-> maxSize, entries |-> <<>>]

CacheIndex(c, key) ==
    IF \E i \in 1..Len(c.entries) : c.entries[i].key = key
    THEN CHOOSE i \in 1..Len(c.entries) : c.entries[i].key = key
    ELSE 0

RemoveAt(seq, i) == SubSeq(seq, 1, i - 1) \o SubSeq(seq, i + 1, Len(seq))

\* get(key) when a read leaves the entry where it is in the Map
SecretCache_getInPlace(c, key, t) ==
    LET i == CacheIndex(c, key)
    IN IF i = 0 THEN [cache |-> c, value |-> Undef]
       ELSE IF t > c.entries[i].expires
       THEN [cache |-> [c EXCEPT !.entries = RemoveAt(@, i)], value |-> Undef]
       ELSE [cache |-> c, value |-> c.entries[i].value]

\* Lines 593-604, get(key) at time t: [cache |-> the cache after the call, value |-> result]
SecretCache_get(c, key, t) ==
    LET i == CacheIndex(c, key)
    IN IF i = 0 THEN [cache |-> c, value |-> Undef]
       ELSE IF t > c.entries[i].expires
       THEN [cache |-> [c EXCEPT !.entries = RemoveAt(@, i)], value |-> Undef]
       ELSE [cache |-> [c EXCEPT !.entries = Append(RemoveAt(@, i), c.entries[i])],
             value |-> c.entries[i].value]

\* set(key, value, ttl) when the entry lives one tick of the clock longer than ttl
SecretCache_setLate(c, key, value, ttl, t) ==
    LET kept == IF Len(c.entries) >= c.maxSize /\ c.entries # <<>>
                THEN Tail(c.entries) ELSE c.entries
        entry == [key |-> key, value |-> value, expires |-> t + ttl + 1]
    IN [c EXCEPT !.entries =
           IF \E i \in 1..Len(kept) : kept[i].key = key
           THEN [i \in 1..Len(kept) |-> IF kept[i].key = key THEN entry ELSE kept[i]]
           ELSE Append(kept, entry)]

\* Lines 606-613, set(key, value, ttl) at time t: the cache after the call
SecretCache_set(c, key, value, ttl, t) ==
    LET kept == IF Len(c.entries) >= c.maxSize /\ c.entries # <<>>
                THEN Tail(c.entries) ELSE c.entries
        entry == [key |-> key, value |-> value, expires |-> t + ttl]
    IN [c EXCEPT !.entries =
           IF \E i \in 1..Len(kept) : kept[i].key = key
           THEN [i \in 1..Len(kept) |-> IF kept[i].key = key THEN entry ELSE kept[i]]
           ELSE Append(kept, entry)]

\* the entries of seq whose key is in keep, in their order
RECURSIVE KeepKeys(_, _)
KeepKeys(seq, keep) ==
    IF seq = <<>> THEN <<>>
    ELSE IF Head(seq).key \in keep THEN <<Head(seq)>> \o KeepKeys(Tail(seq), keep)
    ELSE KeepKeys(Tail(seq), keep)

\* Lines 632-636 with the RegExp built from it: does the whole text match the glob
\* pattern, '*' standing for any run of characters and every other character for itself?
RECURSIVE globToRegex(_, _)
globToRegex(pattern, text) ==
    IF pattern = "" THEN text = ""
    ELSE IF CharAt(pattern, 1) = "*"
    THEN \E n \in 0..Len(text) :
            globToRegex(SubSeq(pattern, 2, Len(pattern)), SubSeq(text, n + 1, Len(text)))
    ELSE /\ text # ""
         /\ CharAt(text, 1) = CharAt(pattern, 1)
         /\ globToRegex(SubSeq(pattern, 2, Len(pattern)), SubSeq(text, 2, Len(text)))

\* Lines 615-624, invalidate(pattern): the cache after the call. No pattern, or the empty
\* one, clears the Map; else the keys the pattern matches as a whole are deleted.
SecretCache_invalidate(c, pattern) ==
    IF pattern = Undef \/ pattern = Str("") THEN [c EXCEPT !.entries = <<>>]
    ELSE [c EXCEPT !.entries =
             KeepKeys(@, {@[i].key : i \in {j \in 1..Len(@) :
                                               ~globToRegex(pattern.s, @[j].key)}})]

Includes(s, c) == \E i \in 1..Len(s) : CharAt(s, i) = c

\* s.split(":")
RECURSIVE SplitColon(_)
SplitColon(s) ==
    IF ~Includes(s, ":") THEN <<s>>
    ELSE LET c == CHOOSE i \in 1..Len(s) :
                     CharAt(s, i) = ":" /\ \A j \in 1..(i - 1) : CharAt(s, j) # ":"
         IN <<SubSeq(s, 1, c - 1)>> \o SplitColon(SubSeq(s, c + 1, Len(s)))

\* Lines 689-709: allowedSecrets is [restricted |-> FALSE] for null, else a list of patterns
isAllowed(fullKey, allowedSecrets) ==
    IF ~allowedSecrets.restricted THEN TRUE
    ELSE \E i \in 1..Len(allowedSecrets.patterns) :
            LET pattern == allowedSecrets.patterns[i]
            IN \/ pattern = fullKey
               \/ globToRegex(pattern, fullKey)
               \/ /\ ~Includes(pattern, ":")
                  /\ globToRegex(pattern, SplitColon(fullKey)[2])

\* RX_SECRET = /\$\{([A-Z][A-Z0-9_]*):([^}]+)\}/g : does it match at position p of s?
SecretAt(s, p) ==
    /\ p + 5 <= Len(s)
    /\ SubSeq(s, p, p + 1) = "${"
    /\ CharAt(s, p + 2) \in UpperChars
    /\ \E c \in (p + 3)..Len(s) :
          /\ CharAt(s, c) = ":"
          /\ \A j \in (p + 3)..(c - 1) : CharAt(s, j) \in UpperChars \cup DigitChars \cup {"_"}
          /\ c + 1 <= Len(s)
          /\ CharAt(s, c + 1) # "}"
          /\ \E q \in (c + 2)..Len(s) : CharAt(s, q) = "}"

\* the match at p: [provider, key (not trimmed), end (the index of the closing brace)]
SecretMatch(s, p) ==
    LET c == CHOOSE i \in (p + 3)..Len(s) :
                 CharAt(s, i) = ":" /\ \A j \in (p + 3)..(i - 1) : CharAt(s, j) # ":"
        q == CHOOSE i \in (c + 2)..Len(s) :
                 CharAt(s, i) = "}" /\ \A j \in (c + 1)..(i - 1) : CharAt(s, j) # "}"
    IN [provider |-> SubSeq(s, p + 2, c - 1), key |-> SubSeq(s, c + 1, q - 1), end |-> q]

\* RESERVED = new Set(["ENV", "VAR"])
RESERVED == {"ENV", "VAR"}

\* refs.has(fullKey) when every occurrence counts as new
HasRefNever(refs, fullKey) == FALSE

HasRef(refs, fullKey) == \E i \in 1..Len(refs) : refs[i].fullKey = fullKey

\* Lines 652-663: the matches of RX_SECRET in the string s from position i on, added to
\* refs (the Map as a sequence of [fullKey, provider, key] in insertion order)
RECURSIVE CollectFrom(_, _, _)
CollectFrom(s, i, refs) ==
    IF i > Len(s) THEN refs
    ELSE IF SecretAt(s, i)
    THEN LET m == SecretMatch(s, i)
             fullKey == m.provider \o ":" \o trim(m.key)
         IN IF m.provider \in RESERVED \/ HasRef(refs, fullKey)
            THEN CollectFrom(s, m.end + 1, refs)
            ELSE CollectFrom(s, m.end + 1,
                     Append(refs, [fullKey |-> fullKey, provider |-> m.provider,
                                   key |-> trim(m.key)]))
    ELSE CollectFrom(s, i + 1, refs)

\* Lines 651-681. The members of a mapping are visited in one fixed order, which stands
\* for its insertion order.
RECURSIVE collectSecretRefs(_, _)
RECURSIVE CollectAll(_, _, _)
CollectAll(items, i, refs) ==
    IF i > Len(items) THEN refs
    ELSE CollectAll(items, i + 1, collectSecretRefs(items[i], refs))

RECURSIVE InOrder(_)
InOrder(o) ==
    IF DOMAIN o = {} THEN <<>>
    ELSE LET k == CHOOSE x \in DOMAIN o : TRUE
         IN <<o[k]>> \o InOrder([x \in DOMAIN o \ {k} |-> o[x]])

collectSecretRefs(value, refs) ==
    IF value.t = "str" THEN CollectFrom(value.s, 1, refs)
    ELSE IF isArray(value) THEN CollectAll(value.a, 1, refs)
    ELSE IF isPlainObject(value) THEN CollectAll(InOrder(value.o), 1, refs)
    ELSE refs

\* Lines 832-836: value.replace(RX_SECRET, ...) from position i on
RECURSIVE ReplaceSecretsFrom(_, _, _)
ReplaceSecretsFrom(s, i, resolved) ==
    IF i > Len(s) THEN ""
    ELSE IF SecretAt(s, i)
    THEN LET m == SecretMatch(s, i)
             fullKey == m.provider \o ":" \o trim(m.key)
             by == IF m.provider \in RESERVED THEN SubSeq(s, i, m.end)
                   ELSE String(Coalesce(Lookup(resolved, fullKey), Str("")))
         IN by \o ReplaceSecretsFrom(s, m.end + 1, resolved)
    ELSE CharAt(s, i) \o ReplaceSecretsFrom(s, i + 1, resolved)

\* Lines 830-852
RECURSIVE replaceSecrets(_, _)
replaceSecrets(value, resolved) ==
    IF value.t = "str" THEN Str(ReplaceSecretsFrom(value.s, 1, resolved))
    ELSE IF isArray(value)
    THEN Arr([i \in 1..Len(value.a) |-> replaceSecrets(value.a[i], resolved)])
    ELSE IF isPlainObject(value)
    THEN Obj([k \in DOMAIN value.o |-> replaceSecrets(value.o[k], resolved)])
    ELSE value

\* What the providers of the model hold. fetch(key) of provider id settles with
\* [kind |-> "value", value |-> v], or fails with an error that is ("notfound") or is not
\* ("error") a not-found error.
Vault(id, key) ==
    IF id = "aws" /\ key = "db" THEN [kind |-> "value", value |-> Str("pw")]
    ELSE IF id = "aws" /\ key = "none" THEN [kind |-> "value", value |-> Null]
    ELSE IF id = "aws" /\ key = "ref" THEN [kind |-> "value", value |-> Str("${AWS:db}")]
    ELSE IF id = "aws" /\ key = "down" THEN [kind |-> "error", value |-> Undef]
    ELSE IF id = "vault" /\ key = "db" THEN [kind |-> "value", value |-> Str("vpw")]
    ELSE IF id = "local" /\ key = "db" THEN [kind |-> "value", value |-> Str("lpw")]
    ELSE [kind |-> "notfound", value |-> Undef]

\* A merge in which the global registry is laid over the providers of the call
RegistryGlobalFirst(global, providers) ==
    LET local == {toUpperCase(providers[i].prefix) : i \in 1..Len(providers)}
        Last(px) == CHOOSE i \in 1..Len(providers) :
                        /\ toUpperCase(providers[i].prefix) = px
                        /\ \A j \in (i + 1)..Len(providers) :
                              toUpperCase(providers[j].prefix) # px
    IN [px \in (DOMAIN global) \cup local |->
          IF px \in DOMAIN global THEN global[px] ELSE providers[Last(px)].id]

\* Lines 728-731: the global registry with the providers of the call registered over it
Registry(global, providers) ==
    LET local == {toUpperCase(providers[i].prefix) : i \in 1..Len(providers)}
        Last(px) == CHOOSE i \in 1..Len(providers) :
                        /\ toUpperCase(providers[i].prefix) = px
                        /\ \A j \in (i + 1)..Len(providers) :
                              toUpperCase(providers[j].prefix) # px
    IN [px \in (DOMAIN global) \cup local |->
          IF px \in local THEN providers[Last(px)].id ELSE global[px]]

\* One turn of the loop when the value the cache returns is not used
LoopBodyRefetch(st, ref, c, o, registry, t) ==
    IF ~isAllowed(ref.fullKey, o.allowedSecrets)
    THEN [st EXCEPT !.warnings = @ (+) SetToBag({[type |-> "blocked_secret",
                                                  provider |-> ref.provider, key |-> ref.key]}),
                    !.resolved = [k \in DOMAIN @ \cup {ref.fullKey} |->
                                     IF k = ref.fullKey THEN Str("") ELSE @[k]]]
    ELSE LET got == IF o.cache THEN SecretCache_get(st.cache, ref.fullKey, t)
                    ELSE [cache |-> st.cache, value |-> Undef]
             st1 == IF o.cache
                    THEN [st EXCEPT !.cache = got.cache,
                                    !.reads = Append(@, [call |-> c, key |-> ref.fullKey])]
                    ELSE st
         IN IF ref.provider \notin DOMAIN registry
            THEN [st1 EXCEPT !.warnings = @ (+) SetToBag({[type |-> "unknown_provider",
                                                  provider |-> ref.provider, key |-> ref.key]}),
                             !.resolved = [k \in DOMAIN @ \cup {ref.fullKey} |->
                                              IF k = ref.fullKey THEN Str("") ELSE @[k]]]
            ELSE [st1 EXCEPT !.pending = Append(@, [fullKey |-> ref.fullKey,
                                                     provider |-> ref.provider,
                                                     key |-> ref.key,
                                                     id |-> registry[ref.provider]]),
                             !.fetches = Append(@, [call |-> c, id |-> registry[ref.provider],
                                                    provider |-> ref.provider, key |-> ref.key,
                                                    at |-> t])]

\* Lines 741-775, one turn of the loop over refs, for the reference ref of call c.
\* st is [resolved, cache, warnings, pending, reads, fetches].
LoopBody(st, ref, c, o, registry, t) ==
    IF ~isAllowed(ref.fullKey, o.allowedSecrets)
    THEN [st EXCEPT !.warnings = @ (+) SetToBag({[type |-> "blocked_secret",
                                                  provider |-> ref.provider, key |-> ref.key]}),
                    !.resolved = [k \in DOMAIN @ \cup {ref.fullKey} |->
                                     IF k = ref.fullKey THEN Str("") ELSE @[k]]]
    ELSE LET got == IF o.cache THEN SecretCache_get(st.cache, ref.fullKey, t)
                    ELSE [cache |-> st.cache, value |-> Undef]
             st1 == IF o.cache
                    THEN [st EXCEPT !.cache = got.cache,
                                    !.reads = Append(@, [call |-> c, key |-> ref.fullKey])]
                    ELSE st
         IN IF got.value # Undef
            THEN [st1 EXCEPT !.resolved = [k \in DOMAIN @ \cup {ref.fullKey} |->
                                              IF k = ref.fullKey THEN got.value ELSE @[k]]]
            ELSE IF ref.provider \notin DOMAIN registry
            THEN [st1 EXCEPT !.warnings = @ (+) SetToBag({[type |-> "unknown_provider",
                                                  provider |-> ref.provider, key |-> ref.key]}),
                             !.resolved = [k \in DOMAIN @ \cup {ref.fullKey} |->
                                              IF k = ref.fullKey THEN Str("") ELSE @[k]]]
            ELSE [st1 EXCEPT !.pending = Append(@, [fullKey |-> ref.fullKey,
                                                     provider |-> ref.provider,
                                                     key |-> ref.key,
                                                     id |-> registry[ref.provider]]),
                             !.fetches = Append(@, [call |-> c, id |-> registry[ref.provider],
                                                    provider |-> ref.provider, key |-> ref.key,
                                                    at |-> t])]

\* Lines 741-814: the loop over refs from turn i on
RECURSIVE Loop(_, _, _, _, _, _, _)
Loop(st, refs, i, c, o, registry, t) ==
    IF i > Len(refs) THEN st
    ELSE Loop(LoopBody(st, refs[i], c, o, registry, t), refs, i + 1, c, o, registry, t)

----------------------------------------------------------------------------
(* The run of applySecretsDeep calls that share one cache *)

\* most applySecretsDeep calls in a behaviour
MaxCalls == 2

\* No resolveRules call is running: none was made (the tree is handed in by the caller),
\* or it has returned (index.js, line 90, and its tree goes to the call of line 103)
Resolved == pc \in {"idle", "done"}
Handed == IF pc = "done" THEN cfg ELSE input

HasReturned(c) == calls[c].status = "returned"

SetResolved(resolved, fullKey, v) ==
    [k \in DOMAIN resolved \cup {fullKey} |-> IF k = fullKey THEN v ELSE resolved[k]]

\* Lines 717-818 up to the await: a call with the input tree, or with the tree an earlier
\* call returned. Merge the registries, collect the references, walk them, issue the
\* fetches; return at once when the tree has no reference.
applySecretsDeep ==
    /\ Resolved
    /\ Len(calls) < MaxCalls
    /\ \E v \in {Handed} \cup {calls[i].result : i \in {j \in 1..Len(calls) : HasReturned(j)}} :
          LET c == Len(calls) + 1
              registry == Registry(globalRegistry, sopts.providers)
              refs == collectSecretRefs(v, <<>>)
              st == Loop([resolved |-> <<>>, cache |-> cache, warnings |-> EmptyBag,
                          pending |-> <<>>, reads |-> readLog, fetches |-> fetchLog],
                         refs, 1, c, sopts, registry, now)
          IN IF refs = <<>>
             THEN /\ calls' = Append(calls, [value |-> v, refs |-> refs, resolved |-> <<>>,
                                             pending |-> <<>>, warnings |-> EmptyBag,
                                             status |-> "returned", result |-> v])
                  /\ UNCHANGED <<cache, readLog, fetchLog>>
             ELSE /\ calls' = Append(calls, [value |-> v, refs |-> refs,
                                             resolved |-> st.resolved, pending |-> st.pending,
                                             warnings |-> st.warnings,
                                             status |-> "await", result |-> Undef])
                  /\ cache' = st.cache
                  /\ readLog' = st.reads
                  /\ fetchLog' = st.fetches
    /\ UNCHANGED <<diffVars, loaderVars, parserVars, resolverVars, input, sopts, globalRegistry, regLog, now, opLog>>

\* The same callbacks when the empty string a failed fetch resolves to is cached as well
SettleCachesFailure(c, j) ==
    /\ LET f == calls[c].pending[j]
           got == Vault(f.id, f.key)
           rest == RemoveAt(calls[c].pending, j)
           warning == [type |-> IF got.kind = "notfound" THEN "secret_not_found"
                                ELSE "secret_fetch_error",
                       provider |-> f.provider, key |-> f.key]
       IN IF got.kind = "value"
          THEN LET strVal == Coalesce(got.value, Str(""))
               IN /\ cache' = IF sopts.cache
                              THEN SecretCache_set(cache, f.fullKey, strVal, sopts.cacheTtl, now)
                              ELSE cache
                  /\ calls' = [calls EXCEPT ![c].pending = rest,
                                            ![c].resolved = SetResolved(@, f.fullKey, strVal)]
          ELSE IF sopts.onNotFound = "error"
          THEN /\ calls' = [calls EXCEPT ![c].pending = rest, ![c].status = "rejected"]
               /\ UNCHANGED cache
          ELSE /\ calls' = [calls EXCEPT ![c].pending = rest,
                                         ![c].warnings = @ (+) SetToBag({warning}),
                                         ![c].resolved = SetResolved(@, f.fullKey, Str(""))]
               /\ cache' = IF sopts.cache
                           THEN SecretCache_set(cache, f.fullKey, Str(""), sopts.cacheTtl, now)
                           ELSE cache
    /\ UNCHANGED <<diffVars, loaderVars, parserVars, resolverVars, input, sopts, globalRegistry, regLog, now, readLog, fetchLog, opLog>>

\* The same callbacks when a failed fetch is never thrown on, whatever the policy
SettleNeverFatal(c, j) ==
    /\ LET f == calls[c].pending[j]
           got == Vault(f.id, f.key)
           rest == RemoveAt(calls[c].pending, j)
           warning == [type |-> IF got.kind = "notfound" THEN "secret_not_found"
                                ELSE "secret_fetch_error",
                       provider |-> f.provider, key |-> f.key]
       IN IF got.kind = "value"
          THEN LET strVal == Coalesce(got.value, Str(""))
               IN /\ cache' = IF sopts.cache
                              THEN SecretCache_set(cache, f.fullKey, strVal, sopts.cacheTtl, now)
                              ELSE cache
                  /\ calls' = [calls EXCEPT ![c].pending = rest,
                                            ![c].resolved = SetResolved(@, f.fullKey, strVal)]
          ELSE /\ calls' = [calls EXCEPT ![c].pending = rest,
                                         ![c].warnings = @ (+) SetToBag({warning}),
                                         ![c].resolved = SetResolved(@, f.fullKey, Str(""))]
               /\ UNCHANGED cache
    /\ UNCHANGED <<diffVars, loaderVars, parserVars, resolverVars, input, sopts, globalRegistry, regLog, now, readLog, fetchLog, opLog>>

\* Lines 778-813: the fetch that call c issued j-th among those still outstanding settles,
\* and its then or catch callback runs
Settle(c, j) ==
    /\ LET f == calls[c].pending[j]
           got == Vault(f.id, f.key)
           rest == RemoveAt(calls[c].pending, j)
           warning == [type |-> IF got.kind = "notfound" THEN "secret_not_found"
                                ELSE "secret_fetch_error",
                       provider |-> f.provider, key |-> f.key]
       IN IF got.kind = "value"
          THEN LET strVal == Coalesce(got.value, Str(""))
               IN /\ cache' = IF sopts.cache
                              THEN SecretCache_set(cache, f.fullKey, strVal, sopts.cacheTtl, now)
                              ELSE cache
                  /\ calls' = [calls EXCEPT ![c].pending = rest,
                                            ![c].resolved = SetResolved(@, f.fullKey, strVal)]
          ELSE IF sopts.onNotFound = "error"
          THEN /\ calls' = [calls EXCEPT ![c].pending = rest, ![c].status = "rejected"]
               /\ UNCHANGED cache
          ELSE /\ calls' = [calls EXCEPT ![c].pending = rest,
                                         ![c].warnings = @ (+) SetToBag({warning}),
                                         ![c].resolved = SetResolved(@, f.fullKey, Str(""))]
               /\ UNCHANGED cache
    /\ UNCHANGED <<diffVars, loaderVars, parserVars, resolverVars, input, sopts, globalRegistry, regLog, now, readLog, fetchLog, opLog>>

\* The return when the fetches still outstanding are not waited for
ReturnEarly(c) ==
    /\ calls[c].status = "await"
    /\ calls' = [calls EXCEPT ![c].status = "returned",
                              ![c].result = replaceSecrets(calls[c].value, calls[c].resolved)]
    /\ UNCHANGED <<diffVars, loaderVars, parserVars, resolverVars, input, sopts, globalRegistry, regLog, cache, now, readLog, fetchLog,
                   opLog>>

\* Lines 818-821: every fetch of call c has settled and none was rejected; replace and return
Return(c) ==
    /\ calls[c].status = "await"
    /\ calls[c].pending = <<>>
    /\ calls' = [calls EXCEPT ![c].status = "returned",
                              ![c].result = replaceSecrets(calls[c].value, calls[c].resolved)]
    /\ UNCHANGED <<diffVars, loaderVars, parserVars, resolverVars, input, sopts, globalRegistry, regLog, cache, now, readLog, fetchLog,
                   opLog>>

\* latest reading of Date.now() in a behaviour
MaxTime == 2

\* most calls a caller makes of the cache's own methods in a behaviour
MaxOps == 4

\* the clock goes on
Tick ==
    /\ now < MaxTime
    /\ now' = now + 1
    /\ UNCHANGED <<diffVars, loaderVars, parserVars, resolverVars, input, sopts, globalRegistry, regLog, cache, calls, readLog, fetchLog,
                   opLog>>

\* the record of a call of one of the cache's methods: what was called with what, when,
\* the entries before and after it, and what it returned
Op(op, key, value, ttl, after, result) ==
    [op |-> op, key |-> key, value |-> value, ttl |-> ttl, at |-> now,
     before |-> cache.entries, after |-> after.entries, result |-> result]

\* Lines 606-613: a caller's cache.set(key, value, ttl)
set(key, value, ttl) ==
    /\ Len(opLog) < MaxOps
    /\ LET after == SecretCache_set(cache, key, value, ttl, now)
       IN /\ cache' = after
          /\ opLog' = Append(opLog, Op("set", key, value, ttl, after, Undef))
    /\ UNCHANGED <<diffVars, loaderVars, parserVars, resolverVars, input, sopts, globalRegistry, regLog, now, calls, readLog, fetchLog>>

\* Lines 593-604: a caller's cache.get(key)
get(key) ==
    /\ Len(opLog) < MaxOps
    /\ LET got == SecretCache_get(cache, key, now)
       IN /\ cache' = got.cache
          /\ opLog' = Append(opLog, Op("get", key, Undef, 0, got.cache, got.value))
    /\ UNCHANGED <<diffVars, loaderVars, parserVars, resolverVars, input, sopts, globalRegistry, regLog, now, calls, readLog, fetchLog>>

\* Lines 615-624: a caller's cache.invalidate(pattern)
invalidate(pattern) ==
    /\ Len(opLog) < MaxOps
    /\ LET after == SecretCache_invalidate(cache, pattern)
       IN /\ cache' = after
          /\ opLog' = Append(opLog, Op("invalidate", pattern, Undef, 0, after, Undef))
    /\ UNCHANGED <<diffVars, loaderVars, parserVars, resolverVars, input, sopts, globalRegistry, regLog, now, calls, readLog, fetchLog>>

\* most calls a caller makes of the registry's functions in a behaviour
MaxRegs == 3

\* Lines 553-558. A provider is [prefix, id]: id names its fetch. One without a prefix is
\* refused with an error and the registry stays as it is.
registerSecretProvider(provider) ==
    /\ Len(regLog) < MaxRegs
    /\ globalRegistry' =
          IF provider.prefix = "" THEN globalRegistry
          ELSE [px \in DOMAIN globalRegistry \cup {toUpperCase(provider.prefix)} |->
                  IF px = toUpperCase(provider.prefix) THEN provider.id
                  ELSE globalRegistry[px]]
    /\ regLog' = Append(regLog, [op |-> "register", prefix |-> provider.prefix,
                                 id |-> provider.id,
                                 result |-> IF provider.prefix = "" THEN "throws" ELSE "ok"])
    /\ UNCHANGED <<diffVars, loaderVars, parserVars, resolverVars, input, sopts, cache, now, calls, readLog,
                   fetchLog, opLog>>

\* Lines 565-567
unregisterSecretProvider(prefix) ==
    /\ Len(regLog) < MaxRegs
    /\ globalRegistry' = [px \in DOMAIN globalRegistry \ {toUpperCase(prefix)} |->
                             globalRegistry[px]]
    /\ regLog' = Append(regLog, [op |-> "unregister", prefix |-> prefix, id |-> "",
                                 result |-> IF toUpperCase(prefix) \in DOMAIN globalRegistry
                                            THEN "true" ELSE "false"])
    /\ UNCHANGED <<diffVars, loaderVars, parserVars, resolverVars, input, sopts, cache, now, calls, readLog,
                   fetchLog, opLog>>

\* Lines 572-574
clearSecretProviders ==
    /\ Len(regLog) < MaxRegs
    /\ globalRegistry' = <<>>
    /\ regLog' = Append(regLog, [op |-> "clear", prefix |-> "", id |-> "", result |-> "ok"])
    /\ UNCHANGED <<diffVars, loaderVars, parserVars, resolverVars, input, sopts, cache, now, calls, readLog,
                   fetchLog, opLog>>

NextSecrets ==
    \/ applySecretsDeep
    \/ \E c \in 1..Len(calls) : \E j \in 1..Len(calls[c].pending) : Settle(c, j)
    \/ \E c \in 1..Len(calls) : Return(c)

\* index.js, lines 90-112: loadColony calls resolveRules, then applySecretsDeep on its tree,
\* and awaits it; a caller who runs the stage again awaits it as well
NoneAwaited == \A c \in 1..Len(calls) : calls[c].status # "await"

NextLoad ==
    \/ Next
    \/ NoneAwaited /\ applySecretsDeep
    \/ \E c \in 1..Len(calls) : \E j \in 1..Len(calls[c].pending) : Settle(c, j)
    \/ \E c \in 1..Len(calls) : Return(c)

----------------------------------------------------------------------------
(* The parser: stripBlockComments, parseKeyPath, parseValue and parseColony *)

EndsWith(s, p) == Len(s) >= Len(p) /\ SubSeq(s, Len(s) - Len(p) + 1, Len(s)) = p

\* The scan when a comment ends at the first star-slash, however many were opened
RECURSIVE StripLineFlat(_, _, _)
StripLineFlat(line, j, st) ==
    IF j > Len(line) THEN st
    ELSE LET two == IF j + 1 <= Len(line) THEN SubSeq(line, j, j + 1) ELSE ""
         IN IF ~st.inComment
            THEN IF two = "/*"
                 THEN StripLineFlat(line, j + 2, [st EXCEPT !.inComment = TRUE, !.commentDepth = 1])
                 ELSE StripLineFlat(line, j + 1, [st EXCEPT !.cleanLine = @ \o CharAt(line, j)])
            ELSE IF two = "*/"
            THEN StripLineFlat(line, j + 2, [st EXCEPT !.commentDepth = 0, !.inComment = FALSE])
            ELSE StripLineFlat(line, j + 1, st)

\* Lines 319-346: the scan of a line from position j on.
\* st is [inComment, commentDepth, cleanLine].
RECURSIVE StripLine(_, _, _)
StripLine(line, j, st) ==
    IF j > Len(line) THEN st
    ELSE LET two == IF j + 1 <= Len(line) THEN SubSeq(line, j, j + 1) ELSE ""
         IN IF ~st.inComment
            THEN IF two = "/*"
                 THEN StripLine(line, j + 2, [st EXCEPT !.inComment = TRUE, !.commentDepth = 1])
                 ELSE StripLine(line, j + 1, [st EXCEPT !.cleanLine = @ \o CharAt(line, j)])
            ELSE IF two = "/*"
            THEN StripLine(line, j + 2, [st EXCEPT !.commentDepth = @ + 1])
            ELSE IF two = "*/"
            THEN StripLine(line, j + 2, [st EXCEPT !.commentDepth = @ - 1,
                                                   !.inComment = (st.commentDepth - 1 # 0)])
            ELSE StripLine(line, j + 1, st)

\* Lines 313-350: the loop over the lines from line i on.
\* st is [inComment, commentDepth, result, lineMap].
RECURSIVE StripLines(_, _, _)
StripLines(lines, i, st) ==
    IF i > Len(lines) THEN st
    ELSE LET s == StripLine(lines[i], 1, [inComment |-> st.inComment,
                                          commentDepth |-> st.commentDepth, cleanLine |-> ""])
         IN StripLines(lines, i + 1,
                       [inComment |-> s.inComment, commentDepth |-> s.commentDepth,
                        result |-> Append(st.result, s.cleanLine),
                        lineMap |-> Append(st.lineMap, i)])

\* Lines 307-353. The lines are those of text.split(/\r?\n/); the cleaned lines stand for
\* result.join("\n"), which parseColony splits again at once (line 426).
stripBlockComments(lines) ==
    LET st == StripLines(lines, 1, [inComment |-> FALSE, commentDepth |-> 0,
                                    result |-> <<>>, lineMap |-> <<>>])
    IN [lines |-> st.result, lineMap |-> st.lineMap]

\* Lines 361-386
RECURSIVE KeyPathFrom(_, _, _, _)
KeyPathFrom(keyRaw, i, current, segments) ==
    LET pushed == IF trim(current) # "" THEN Append(segments, trim(current)) ELSE segments
    IN IF i > Len(keyRaw) THEN pushed
       ELSE IF CharAt(keyRaw, i) = "\\" /\ i + 1 <= Len(keyRaw) /\ CharAt(keyRaw, i + 1) = "."
       THEN KeyPathFrom(keyRaw, i + 2, current \o ".", segments)
       ELSE IF CharAt(keyRaw, i) = "."
       THEN KeyPathFrom(keyRaw, i + 1, "", pushed)
       ELSE KeyPathFrom(keyRaw, i + 1, current \o CharAt(keyRaw, i), segments)

parseKeyPath(keyRaw) == KeyPathFrom(keyRaw, 1, "", <<>>)

\* the first position from p on that holds no white space
RECURSIVE SkipSpace(_, _)
SkipSpace(s, p) ==
    IF p <= Len(s) /\ IsSpace(CharAt(s, p)) THEN SkipSpace(s, p + 1) ELSE p

\* (\:=|\|\=|\+\=|\-\=|\=) at position p: the operator matched, "" when none is
OpAt(s, p) ==
    IF p + 1 <= Len(s) /\ SubSeq(s, p, p + 1) \in {":=", "|=", "+=", "-="}
    THEN SubSeq(s, p, p + 1)
    ELSE IF p <= Len(s) /\ CharAt(s, p) = "=" THEN "=" ELSE ""

\* RX_RULE = /^(.+?)\s*(\:=|\|\=|\+\=|\-\=|\=)\s*([\s\S]+)\s*;$/ (line 297): the shortest
\* key on the first line that an operator follows, with something between it and the
\* closing ';'
RX_RULE(raw) ==
    LET Fits(k) ==
            /\ \A j \in 1..k : CharAt(raw, j) \notin {"\n", "\r"}
            /\ OpAt(raw, SkipSpace(raw, k + 1)) # ""
            /\ SkipSpace(raw, k + 1) + Len(OpAt(raw, SkipSpace(raw, k + 1))) <= Len(raw) - 1
        ks == {k \in 1..Len(raw) : Fits(k)}
    IN IF ~EndsWith(raw, ";") \/ ks = {}
       THEN [matched |-> FALSE, key |-> "", op |-> "", value |-> ""]
       ELSE LET k == CHOOSE x \in ks : \A y \in ks : x <= y
                q == SkipSpace(raw, k + 1)
                op == OpAt(raw, q)
            IN [matched |-> TRUE, key |-> SubSeq(raw, 1, k), op |-> op,
                value |-> SubSeq(raw, q + Len(op), Len(raw) - 1)]

\* the length of the run of [A-Z0-9_] that ends s
RECURSIVE WordEnd(_)
WordEnd(s) ==
    IF s # "" /\ CharAt(s, Len(s)) \in UpperChars \cup DigitChars \cup {"_"}
    THEN 1 + WordEnd(SubSeq(s, 1, Len(s) - 1)) ELSE 0

\* the string without the white space that ends it
RECURSIVE trimEnd(_)
trimEnd(s) ==
    IF s # "" /\ IsSpace(CharAt(s, Len(s))) THEN trimEnd(SubSeq(s, 1, Len(s) - 1)) ELSE s

\* /^(.+?)\s*(\:=|\|\=|\+\=|\-\=|\=)\s*<<([A-Z_][A-Z0-9_]*)$/ (line 579) on a trimmed
\* line: a delimiter ends the line, "<<" stands before it, and what is before that ends
\* with an operator that a key precedes
HeredocStart(trimmed) ==
    LET w == WordEnd(trimmed)
        d == SubSeq(trimmed, Len(trimmed) - w + 1, Len(trimmed))
        before == trimEnd(SubSeq(trimmed, 1, Len(trimmed) - w - 2))
        two == IF Len(before) >= 2 THEN SubSeq(before, Len(before) - 1, Len(before)) ELSE ""
        op == IF Len(before) >= 3 /\ two \in {":=", "|=", "+=", "-="} THEN two
              ELSE IF Len(before) >= 2 /\ CharAt(before, Len(before)) = "=" THEN "=" ELSE ""
    IN IF /\ w >= 1
          /\ CharAt(d, 1) \notin DigitChars
          /\ Len(trimmed) >= w + 2
          /\ SubSeq(trimmed, Len(trimmed) - w - 1, Len(trimmed) - w) = "<<"
          /\ op # ""
          /\ \A j \in 1..(Len(before) - Len(op)) : CharAt(before, j) \notin {"\n", "\r"}
       THEN [matched |-> TRUE, key |-> SubSeq(before, 1, Len(before) - Len(op)), op |-> op,
             delimiter |-> d]
       ELSE [matched |-> FALSE, key |-> "", op |-> "", delimiter |-> ""]

\* RX_DIMS, RX_INCLUDE, RX_REQUIRE, RX_ENVDEFAULTS (lines 291-294) on a statement that
\* ends with ';': the name, white space, and something that is no ';'
DirectiveNames == {"@dims", "@include", "@require", "@envDefaults"}
IsDirective(raw) ==
    \E d \in DirectiveNames :
        /\ StartsWith(raw, d)
        /\ Len(raw) >= Len(d) + 3
        /\ IsSpace(CharAt(raw, Len(d) + 1))
        /\ \/ CharAt(raw, Len(d) + 2) # ";"
           \/ d = "@include"

\* the number a run of digits reads as
RECURSIVE DigitsToNum(_)
DigitsToNum(r) ==
    IF r = "" THEN 0
    ELSE 10 * DigitsToNum(SubSeq(r, 1, Len(r) - 1))
         + (CHOOSE n \in 0..9 : Digits[n + 1] = CharAt(r, Len(r)))

IsDigits(r) == r # "" /\ \A j \in 1..Len(r) : CharAt(r, j) \in DigitChars

\* Lines 632-661, for the literals, the whole numbers, the quoted strings without escapes
\* and the barewords. An object, an array and a string with escapes, which JSON5.parse
\* reads, are kept as [t |-> "json5"] with their text.
parseValue(raw) ==
    LET r == trim(raw)
        starts == IF r = "" THEN "" ELSE CharAt(r, 1)
        ends == IF r = "" THEN "" ELSE CharAt(r, Len(r))
    IN IF r = "true" THEN Bool(TRUE)
       ELSE IF r = "false" THEN Bool(FALSE)
       ELSE IF r = "null" THEN Null
       ELSE IF IsDigits(r) THEN Num(DigitsToNum(r))
       ELSE IF Len(r) >= 2 /\ CharAt(r, 1) = "-" /\ IsDigits(SubSeq(r, 2, Len(r)))
       THEN Num(0 - DigitsToNum(SubSeq(r, 2, Len(r))))
       ELSE IF /\ Len(r) >= 2
               /\ starts = ends
               /\ starts \in {"\"", "'"}
               /\ \A j \in 2..(Len(r) - 1) : CharAt(r, j) \notin {"\\", "\n", starts}
       THEN Str(SubSeq(r, 2, Len(r) - 1))
       ELSE IF \/ starts = "{" /\ ends = "}"
               \/ starts = "[" /\ ends = "]"
               \/ starts = ends /\ starts \in {"\"", "'"}
       THEN [t |-> "json5", s |-> r]
       ELSE Str(r)

\* the locals of a parseColony call that has not looked at a line yet (lines 424-446)
Locals(at, lines, lineMap) ==
    [pc |-> at, lines |-> lines, lineMap |-> lineMap, i |-> 1,
     buf |-> "", bufStartLine |-> 0, bufStartOriginalLine |-> 0,
     inHeredoc |-> FALSE, heredocDelimiter |-> "", heredocContent |-> "",
     heredocStartLine |-> 0, heredocKey |-> "", heredocOp |-> "",
     rules |-> <<>>, directives |-> <<>>, error |-> Undef]

\* throw new Error(formatParseError(message, originalLines, lineNo, ...))
Thrown(p, message, lineNo) ==
    [p EXCEPT !.pc = "error", !.error = [message |-> message, line |-> lineNo]]

\* Lines 449-543: flush. A directive is kept as its text; what it declares is not looked
\* at (nor the entries of @envDefaults, lines 483-497).
flush(p) ==
    LET raw == trim(p.buf)
        q == [p EXCEPT !.buf = ""]
        origLine == p.bufStartOriginalLine
        mRule == RX_RULE(raw)
        keyRaw == trim(mRule.key)
        keySegments == parseKeyPath(keyRaw)
    IN IF raw = "" THEN q
       ELSE IF IsDirective(raw) THEN [q EXCEPT !.directives = Append(@, raw)]
       ELSE IF ~mRule.matched THEN Thrown(q, "Invalid statement", origLine)
       ELSE IF keySegments = <<>> THEN Thrown(q, "Empty key", origLine)
       ELSE [q EXCEPT !.rules = Append(@, [filePath |-> "<memory>", line |-> origLine,
                                           col |-> 0, keyRaw |-> keyRaw,
                                           keySegments |-> keySegments, op |-> mRule.op,
                                           value |-> parseValue(trim(mRule.value))])]

\* Lines 545-606: one turn of the loop over the cleaned lines
LoopTurn(p) ==
    LET lineNo == p.i
        originalLineNo == p.lineMap[lineNo]
        line == p.lines[p.i]
        trimmed == trim(line)
        next == [p EXCEPT !.i = @ + 1]
        heredocMatch == HeredocStart(trimmed)
        keySegments == parseKeyPath(p.heredocKey)
        grown == [next EXCEPT !.bufStartLine = IF p.buf = "" THEN lineNo ELSE @,
                              !.bufStartOriginalLine = IF p.buf = "" THEN originalLineNo ELSE @,
                              !.buf = @ \o (IF @ # "" THEN "\n" ELSE "") \o line]
    IN IF p.inHeredoc
       THEN IF trimmed = p.heredocDelimiter
            THEN IF keySegments = <<>>
                 THEN Thrown(next, "Empty key in heredoc", p.heredocStartLine)
                 ELSE [next EXCEPT !.rules = Append(@, [filePath |-> "<memory>",
                                                         line |-> p.heredocStartLine,
                                                         col |-> 0, keyRaw |-> p.heredocKey,
                                                         keySegments |-> keySegments,
                                                         op |-> p.heredocOp,
                                                         value |-> Str(p.heredocContent)]),
                                    !.inHeredoc = FALSE,
                                    !.heredocContent = ""]
            ELSE [next EXCEPT !.heredocContent = @ \o (IF @ # "" THEN "\n" ELSE "") \o line]
       ELSE IF trimmed = "" \/ StartsWith(trimmed, "#") \/ StartsWith(trimmed, "//")
       THEN next
       ELSE IF heredocMatch.matched
       THEN [next EXCEPT !.inHeredoc = TRUE,
                         !.heredocKey = trim(heredocMatch.key),
                         !.heredocOp = heredocMatch.op,
                         !.heredocDelimiter = heredocMatch.delimiter,
                         !.heredocStartLine = originalLineNo,
                         !.heredocContent = ""]
       ELSE IF EndsWith(trimmed, ";") THEN flush(grown) ELSE grown

\* Lines 423-446: parseColony(text) is called; the block comments are stripped
parseColony ==
    /\ parser.pc = "start"
    /\ LET cleaned == stripBlockComments(fileText)
       IN parser' = Locals("loop", cleaned.lines, cleaned.lineMap)
    /\ UNCHANGED <<diffVars, loaderVars, fileText, resolverVars, secretVars>>

\* Lines 545-606: the loop looks at its next line
ParseLine ==
    /\ parser.pc = "loop"
    /\ parser.i <= Len(parser.lines)
    /\ parser' = LoopTurn(parser)
    /\ UNCHANGED <<diffVars, loaderVars, fileText, resolverVars, secretVars>>

\* A parseColony that returns what it has when the text ends, whatever is still open
ParseEndLenient ==
    /\ parser.pc = "loop"
    /\ parser.i > Len(parser.lines)
    /\ parser' = [parser EXCEPT !.pc = "done"]
    /\ UNCHANGED <<diffVars, loaderVars, fileText, resolverVars, secretVars>>

\* Lines 608-630: the loop is over; an open heredoc or statement is an error, else the
\* call returns
ParseEnd ==
    /\ parser.pc = "loop"
    /\ parser.i > Len(parser.lines)
    /\ parser' = IF parser.inHeredoc
                 THEN Thrown(parser, "Unterminated heredoc", parser.heredocStartLine)
                 ELSE IF trim(parser.buf) # ""
                 THEN Thrown(parser, "Unterminated statement", parser.bufStartOriginalLine)
                 ELSE [parser EXCEPT !.pc = "done"]
    /\ UNCHANGED <<diffVars, loaderVars, fileText, resolverVars, secretVars>>

NextParse ==
    \/ parseColony
    \/ ParseLine
    \/ ParseEnd

\* no parseColony call is made: the caller hands its own rules to resolveRules
NoParse ==
    /\ fileText = <<>>
    /\ parser = Locals("idle", <<>>, <<>>)

\* no cfg.diff call is made
NoDiff ==
    /\ other = Undef
    /\ diffed = <<>>

\* the locals of a loadColony call with the options o (entry, sandbox.maxIncludeDepth, dims,
\* ctx) under process.env.NODE_ENV = nodeEnv, before expandIncludes is called (index.js
\* 48-60). stack holds the dfs calls under way, the innermost last: [file, depth, at],
\* at = 0 for a call that has not looked at its file yet, else the include it is at.
Loader(at, o, nodeEnv) ==
    [pc |-> at, opts |-> o, nodeEnv |-> nodeEnv, visited |-> {}, out |-> <<>>,
     stack |-> <<>>, error |-> Undef]

\* no loadColony call is made
NoLoader ==
    /\ disk = <<>>
    /\ loader = Loader("idle", [entry |-> "", maxIncludeDepth |-> 50, dims |-> <<>>,
                                ctx |-> <<>>], Undef)

----------------------------------------------------------------------------
(* Inputs *)

\* longest rule list handed to resolveRules
MaxRules == 3

\* The value of the rule on line i: the leaf 0 stands for a value only that rule has
\* (10 + i), the key "f" for a key only that rule has ("f" followed by i).
RECURSIVE Stamp(_, _)
Stamp(v, i) ==
    IF v = Num(0) THEN Num(10 + i)
    ELSE IF isArray(v) THEN Arr([j \in 1..Len(v.a) |-> Stamp(v.a[j], i)])
    ELSE IF isPlainObject(v)
    THEN LET Key(k) == IF k = "f" THEN "f" \o NumToString(i) ELSE k
         IN Obj([k \in {Key(x) : x \in DOMAIN v.o} |->
                   Stamp(v.o[CHOOSE x \in DOMAIN v.o : Key(x) = k], i)])
    ELSE v

\* A rule shape is [keySegments, op, value]; the rule on line i of file test.colony
MkRule(shape, i) ==
    [filePath |-> "test.colony", line |-> i, col |-> 0,
     keySegments |-> shape.keySegments, op |-> shape.op, value |-> Stamp(shape.value, i)]

\* the rule list made of the shapes sh, one rule a line
MkRules(sh) == [i \in 1..Len(sh) |-> MkRule(sh[i], i)]

Shape(segs, op, value) == [keySegments |-> segs, op |-> op, value |-> value]

NoOpts ==
    [vars |-> <<>>,
     env |-> [given |-> FALSE, map |-> <<>>],
     processEnv |-> [n \in {"HOME"} |-> Str("/root")],
     allowedEnvVars |-> [restricted |-> FALSE, names |-> {}],
     allowedVars |-> [restricted |-> FALSE, names |-> {}]]

\* Lines 719-726: the options of applySecretsDeep when none is given
DefaultSecretOpts ==
    [providers |-> <<>>, allowedSecrets |-> [restricted |-> FALSE, patterns |-> <<>>],
     cache |-> FALSE, cacheTtl |-> 300000, onNotFound |-> "warn"]

\* no applySecretsDeep call is made or under way
NoCalls ==
    /\ now = 0
    /\ calls = <<>>
    /\ readLog = <<>>
    /\ fetchLog = <<>>
    /\ opLog = <<>>
    /\ regLog = <<>>

\* the secrets stage when no provider is registered and no secrets option given
NoSecrets ==
    /\ input = Undef
    /\ sopts = DefaultSecretOpts
    /\ globalRegistry = <<>>
    /\ cache = NewSecretCache(100)
    /\ NoCalls
    /\ NoParse
    /\ NoDiff
    /\ NoLoader

\* no resolveRules call is made: the caller hands its own tree to applySecretsDeep
NoResolver ==
    /\ rules = <<>>
    /\ dims = <<>>
    /\ ctx = <<>>
    /\ opts = NoOpts
    /\ pc = "idle"
    /\ candidatesByKey = <<>>
    /\ postOps = <<>>
    /\ ki = 0
    /\ pi = 0
    /\ out = EmptyObj
    /\ trace = <<>>
    /\ winner = NoRule
    /\ applied = <<>>
    /\ written = <<>>
    /\ held = <<>>
    /\ shared = {}
    /\ warnings = EmptyBag
    /\ cfg = Undef

\* the state before the first applySecretsDeep call on a tree of T with options of O,
\* a cache that holds the entries of one of E and the global registry G
SecretsEntered(T, O, E, G) ==
    /\ NoResolver
    /\ input \in T
    /\ sopts \in O
    /\ globalRegistry = G
    /\ \E e \in E : cache = [maxSize |-> 100, entries |-> e]
    /\ NoCalls
    /\ NoParse
    /\ NoDiff
    /\ NoLoader

----------------------------------------------------------------------------
(* index.js: loadColony and expandIncludes *)

\* Lines 172-176: expandIncludes calls dfs(absEntry, 0)
expandIncludes ==
    /\ loader.pc = "start"
    /\ loader' = [loader EXCEPT !.pc = "dfs",
                                !.stack = <<[file |-> loader.opts.entry, depth |-> 0, at |-> 0]>>]
    /\ UNCHANGED <<disk, diffVars, parserVars, resolverVars, secretVars>>

\* the stack after the innermost dfs call has returned: expandIncludes returns with it
\* when it was the outermost
DfsReturned(l) ==
    LET rest == SubSeq(l.stack, 1, Len(l.stack) - 1)
    IN [l EXCEPT !.stack = rest, !.pc = IF rest = <<>> THEN "expanded" ELSE "dfs"]

\* a dfs that looks at the visited set before it looks at the depth
dfsEnterVisitedFirst ==
    /\ loader.pc = "dfs"
    /\ LET top == loader.stack[Len(loader.stack)]
       IN /\ top.at = 0
          /\ loader' =
                IF top.file \in loader.visited THEN DfsReturned(loader)
                ELSE IF top.depth > loader.opts.maxIncludeDepth
                THEN [loader EXCEPT !.pc = "error",
                                    !.error = [message |-> "Max include depth", file |-> top.file]]
                ELSE [loader EXCEPT !.visited = @ \cup {top.file},
                                    !.stack[Len(loader.stack)].at = 1]
    /\ UNCHANGED <<disk, diffVars, parserVars, resolverVars, secretVars>>

\* Lines 178-200: a dfs call starts. Too deep: throw; a visited file: return; else mark the
\* file as visited and read its includes
dfsEnter ==
    /\ loader.pc = "dfs"
    /\ LET top == loader.stack[Len(loader.stack)]
       IN /\ top.at = 0
          /\ loader' =
                IF top.depth > loader.opts.maxIncludeDepth
                THEN [loader EXCEPT !.pc = "error",
                                    !.error = [message |-> "Max include depth", file |-> top.file]]
                ELSE IF top.file \in loader.visited THEN DfsReturned(loader)
                ELSE [loader EXCEPT !.visited = @ \cup {top.file},
                                    !.stack[Len(loader.stack)].at = 1]
    /\ UNCHANGED <<disk, diffVars, parserVars, resolverVars, secretVars>>

\* Lines 202-228: the loop over the includes and their matches calls dfs(m, depth + 1)
dfsInclude ==
    /\ loader.pc = "dfs"
    /\ LET n == Len(loader.stack)
           top == loader.stack[n]
       IN /\ top.at \in 1..Len(disk[top.file].includes)
          /\ loader' = [loader EXCEPT
                           !.stack = Append([@ EXCEPT ![n].at = top.at + 1],
                                            [file |-> disk[top.file].includes[top.at],
                                             depth |-> top.depth + 1, at |-> 0])]
    /\ UNCHANGED <<disk, diffVars, parserVars, resolverVars, secretVars>>

\* Line 231: out.push(abs), and the dfs call returns
dfsReturn ==
    /\ loader.pc = "dfs"
    /\ LET top == loader.stack[Len(loader.stack)]
       IN /\ top.at > Len(disk[top.file].includes)
          /\ loader' = DfsReturned([loader EXCEPT !.out = Append(@, top.file)])
    /\ UNCHANGED <<disk, diffVars, parserVars, resolverVars, secretVars>>

\* Lines 164-170: the entries of the later maps over those of the earlier ones
RECURSIVE mergeEnvDefaults(_)
mergeEnvDefaults(list) ==
    IF list = <<>> THEN <<>>
    ELSE LET before == mergeEnvDefaults(SubSeq(list, 1, Len(list) - 1))
             m == list[Len(list)]
         IN [k \in DOMAIN before \cup DOMAIN m |-> IF k \in DOMAIN m THEN m[k] ELSE before[k]]

\* parsed.flatMap((p) => p.rules) from the file at position i on, as [file, shape]
RECURSIVE FlatRules(_, _)
FlatRules(files, i) ==
    IF i > Len(files) THEN <<>>
    ELSE [j \in 1..Len(disk[files[i]].rules) |->
            [file |-> files[i], shape |-> disk[files[i]].rules[j]]]
         \o FlatRules(files, i + 1)

\* Lines 62-90: the files are parsed in the order of the walk; dims, ctx and the rule list
\* are put together and resolveRules is called. A rule is numbered by its place in the
\* list (line) and keeps the file it comes from.
loadColony ==
    /\ loader.pc = "expanded"
    /\ pc = "idle"
    /\ LET files == loader.out
           parsed == [i \in 1..Len(files) |-> disk[files[i]]]
           withDims == {i \in 1..Len(parsed) : parsed[i].dims # <<>>}
           envDefaults == mergeEnvDefaults([i \in 1..Len(parsed) |-> parsed[i].envDefaults])
           env == [k \in {"env"} |-> Coalesce(loader.nodeEnv, Str("dev"))]
           upTo == [k \in DOMAIN envDefaults \cup {"env"} |->
                      IF k = "env" THEN env[k] ELSE envDefaults[k]]
           allRules == FlatRules(files, 1)
       IN /\ dims' = IF loader.opts.dims # <<>> THEN loader.opts.dims
                     ELSE IF withDims # {}
                     THEN parsed[CHOOSE i \in withDims : \A j \in withDims : i <= j].dims
                     ELSE <<"env">>
          /\ ctx' = [k \in DOMAIN upTo \cup DOMAIN loader.opts.ctx |->
                       IF k \in DOMAIN loader.opts.ctx THEN loader.opts.ctx[k] ELSE upTo[k]]
          /\ rules' = [i \in 1..Len(allRules) |->
                         [MkRule(allRules[i].shape, i) EXCEPT !.filePath = allRules[i].file]]
          /\ held' = [i \in 1..Len(allRules) |-> Stamp(allRules[i].shape.value, i)]
    /\ opts' = [opts EXCEPT !.vars = [k \in {"ROOT"} |-> Str("/work")]]
    /\ pc' = "start"
    /\ loader' = [loader EXCEPT !.pc = "resolving"]
    /\ UNCHANGED <<disk, diffVars, parserVars, secretVars, candidatesByKey, postOps, ki, pi,
                   out, trace, winner, applied, written, shared, warnings, cfg>>

NextIncludes ==
    \/ expandIncludes
    \/ dfsEnter
    \/ dfsInclude
    \/ dfsReturn

NextLoader ==
    \/ NextIncludes
    \/ loadColony
    \/ Next

\* the state when resolveRules is entered with a rule list of at most MaxRules rules
\* over the shapes of F, dimensions ds, a context of C and options of O
ResolverEntered(F, ds, C, O) ==
    /\ \E n \in 0..MaxRules : \E sh \in [1..n -> F] : rules = MkRules(sh)
    /\ ctx \in C
    /\ dims = ds
    /\ opts \in O
    /\ pc = "start"
    /\ candidatesByKey = <<>>
    /\ postOps = <<>>
    /\ ki = 0
    /\ pi = 0
    /\ out = EmptyObj
    /\ trace = <<>>
    /\ winner = NoRule
    /\ applied = <<>>
    /\ written = <<>>
    /\ held = [i \in 1..Len(rules) |-> rules[i].value]
    /\ shared = {}
    /\ warnings = EmptyBag
    /\ cfg = Undef

\* resolveRules is entered and the secrets stage plays no part
EnteredWith(F, ds, C, O) == ResolverEntered(F, ds, C, O) /\ NoSecrets

\* the same with no variables, no env option and no allow-list
Entered(F, ds, C) == EnteredWith(F, ds, C, {NoOpts})

EnvRegion == <<"env", "region">>
ProdUs == [d \in {"env", "region"} |-> IF d = "env" THEN Str("prod") ELSE Str("us")]
ProdEu == [d \in {"env", "region"} |-> IF d = "env" THEN Str("prod") ELSE Str("eu")]
DevUs == [d \in {"env", "region"} |-> IF d = "env" THEN Str("dev") ELSE Str("us")]
ProdOnly == [d \in {"env"} |-> Str("prod")]

\* Rules competing for one key: four scopes, the three primary operators
WinScopes == {<<"*", "*">>, <<"prod", "*">>, <<"*", "us">>, <<"prod", "us">>}
WinShapes ==
    {Shape(sc \o <<"k">>, op, Num(0)) : sc \in WinScopes, op \in {"=", ":=", "|="}}
    \cup {Shape(<<"*", "*", "k">>, op, Obj1("f", Num(0))) : op \in {"=", "|="}}
    \cup {Shape(<<"prod", "*", "k">>, "+=", Num(1))}

Init == Entered(WinShapes, EnvRegion, {ProdUs, ProdEu})

Spec == Init /\ [][Next]_vars

\* Rules that match or miss the context in every way: wildcard, equal token, token in
\* another case, empty token, other token; contexts with and without a region
MatchScopes == {<<"*", "*">>, <<"prod", "*">>, <<"Prod", "*">>, <<"prod", "">>,
                <<"prod", "us">>, <<"*", "eu">>}
MatchShapes == {Shape(sc \o <<"k">>, op, Num(0)) : sc \in MatchScopes, op \in {"=", "+="}}

InitMatch ==
    Entered(MatchShapes, EnvRegion, {ProdUs, ProdOnly, DevUs})

SpecMatch == InitMatch /\ [][Next]_vars

\* Rules writing a key path and its parent: one dimension, every rule matching
Env == <<"env">>
StarA == <<"*", "a">>
StarAB == <<"*", "a", "b">>
TreeShapes ==
    {Shape(StarAB, "=", v) : v \in {Num(1), Null, Arr(<<Num(1)>>), Obj2("c", Num(1), "x", Num(1))}}
    \cup {Shape(<<"*", "a", "x">>, "=", Num(1))}
    \cup {Shape(StarA, "|=", v) :
            v \in {Obj1("b", Num(2)), Obj1("b", Obj2("c", Num(2), "d", Num(2))),
                   Obj1("b", Arr(<<Num(2)>>)), Obj1("y", Num(2)), Arr(<<Num(2)>>), Num(2)}}
    \cup {Shape(StarA, ":=", Obj1("b", Num(2)))}
    \cup {Shape(StarA, "=", v) : v \in {Obj1("b", Num(1)), Obj1("b", Null)}}
    \cup {Shape(StarAB, ":=", Num(9)), Shape(StarAB, "|=", Obj1("d", Num(2)))}
    \cup {Shape(<<"prod", "a", "b">>, "+=", Num(1))}

InitTree == Entered(TreeShapes, Env, {ProdOnly})

SpecTree == InitTree /\ [][Next]_vars

\* Deferred rules of specificity 0, 1 and 1 on one key, over every kind of existing value
PostScopes == {<<"*", "*">>, <<"prod", "*">>, <<"*", "us">>}
PostShapes ==
    {Shape(<<"*", "*", "k">>, "=", v) :
        v \in {Arr(<<Num(1), Num(2)>>), Num(1), Obj1("b", Num(1)), Null}}
    \cup {Shape(sc \o <<"k">>, "+=", v) : sc \in PostScopes, v \in {Arr(<<Num(1)>>), Arr(<<Num(2)>>)}}
    \cup {Shape(sc \o <<"k">>, "-=", v) : sc \in PostScopes, v \in {Arr(<<Num(1)>>), Num(2)}}

InitPost == Entered(PostShapes, EnvRegion, {ProdUs, ProdEu})

SpecPost == InitPost /\ [][Next]_vars

\* The timeout example, with its first rule as printed (one scope token) and with two
Timeout1 == Shape(<<"*", "timeout">>, "=", Num(1000))
Timeout2 == Shape(<<"*", "*", "timeout">>, "=", Num(1000))
TimeoutProd == Shape(<<"prod", "*", "timeout">>, "=", Num(2000))
TimeoutProdUs == Shape(<<"prod", "us", "timeout">>, "=", Num(3000))
ExampleShapes ==
    {Timeout1, Timeout2, TimeoutProd, TimeoutProdUs,
     Shape(<<"prod", "*", "timeout">>, "+=", Num(1))}

InitExample ==
    Entered(ExampleShapes, EnvRegion, {ProdUs, ProdEu})

SpecExample == InitExample /\ [][Next]_vars

\* Rules writing a.b directly and as part of a mapping, with deferred rules that find a
\* sequence, a scalar or nothing there
TraceShapes ==
    {Shape(StarA, "=", Obj1("b", Num(1))), Shape(StarA, "|=", Obj1("c", Num(1))),
     Shape(StarAB, "=", Arr(<<Num(1)>>)), Shape(StarAB, ":=", Num(9)),
     Shape(<<"prod", "a", "b">>, "=", Num(0)),
     Shape(StarAB, "+=", Num(2)), Shape(<<"prod", "a", "b">>, "+=", Num(3)),
     Shape(StarAB, "-=", Num(1)), Shape(<<"prod", "a", "b">>, "-=", Num(1))}

InitTrace == Entered(TraceShapes, Env, {ProdOnly})

SpecTrace == InitTrace /\ [][Next]_vars

\* Rules writing below a mapping that a = or a |= rule put into the tree
AliasShapes ==
    {Shape(<<"*", "a", "x">>, "=", Num(1)),
     Shape(StarA, "|=", Obj1("b", Obj1("c", Num(2)))),
     Shape(StarA, "=", Obj1("b", Obj1("c", Num(1)))),
     Shape(StarAB, "|=", Obj1("e", Obj1("g", Num(2)))),
     Shape(<<"*", "a", "b", "d">>, "=", Num(0)),
     Shape(<<"*", "a", "b", "d">>, "+=", Num(1)),
     Shape(<<"*", "a", "b", "e", "h">>, "=", Num(1))}

InitAlias == Entered(AliasShapes, Env, {ProdOnly})

SpecAlias == InitAlias /\ [][Next]_vars

\* Rules with too few key segments among well-formed ones: one scope token and a key,
\* two scope tokens and no key (matching and not), one token alone
KeyShapes ==
    {Shape(<<"*", "*", "k">>, "=", Num(0)), Shape(<<"prod", "*", "k">>, "+=", Num(1)),
     Shape(<<"*", "k">>, "=", Num(0)), Shape(<<"*", "*">>, "=", Num(0)),
     Shape(<<"dev", "us">>, "=", Num(0)), Shape(<<"prod">>, "+=", Num(1))}

InitKey == Entered(KeyShapes, EnvRegion, {ProdUs, ProdEu})

SpecKey == InitKey /\ [][Next]_vars

\* Strings with ${ENV:...} and ${VAR:...} references, resolved with and without allow-lists
AllowTexts ==
    {"${ENV:A}", "${ENV:B}", "${ ENV: B }", "${VAR:a}", "${VAR:b}",
     "a${ENV:B}b${ENV:B}", "${ENV:A}${VAR:b}", "plain"}
AllowShapes ==
    {Shape(<<"*", "k">>, "=", Str(t)) : t \in AllowTexts}
    \cup {Shape(<<"*", "m">>, "=", Obj2("u", Str("${ENV:B}"), "n", Num(0))),
          Shape(<<"*", "k">>, "+=", Str("${VAR:b}")),
          Shape(<<"*", "m", "u">>, ":=", Str("${ENV:C}"))}

ProcessEnvAB == [n \in {"A", "B"} |-> IF n = "A" THEN Str("1") ELSE Str("hidden")]
VarsAB == [n \in {"a", "b"} |-> IF n = "a" THEN Str("x") ELSE Num(7)]
ListOf(names) == [restricted |-> TRUE, names |-> names]
NoList == [restricted |-> FALSE, names |-> {}]
AllowOpts ==
    {[vars |-> VarsAB, env |-> [given |-> FALSE, map |-> <<>>], processEnv |-> ProcessEnvAB,
      allowedEnvVars |-> ListOf({"A"}), allowedVars |-> ListOf({"a"})],
     [vars |-> VarsAB, env |-> [given |-> TRUE, map |-> [n \in {"B"} |-> Str("over")]],
      processEnv |-> ProcessEnvAB, allowedEnvVars |-> ListOf({}), allowedVars |-> NoList],
     [vars |-> VarsAB, env |-> [given |-> FALSE, map |-> <<>>], processEnv |-> ProcessEnvAB,
      allowedEnvVars |-> ListOf({"A", "B"}), allowedVars |-> ListOf({})],
     [vars |-> VarsAB, env |-> [given |-> FALSE, map |-> <<>>], processEnv |-> ProcessEnvAB,
      allowedEnvVars |-> NoList, allowedVars |-> NoList]}

InitAllow == EnteredWith(AllowShapes, Env, {ProdOnly}, AllowOpts)

SpecAllow == InitAllow /\ [][Next]_vars

\* Strings with spans that are secret-shaped, nearly secret-shaped or unknown, next to
\* leaves that are not strings
PatternTexts ==
    {"${AWS:myapp/secret}", "${ AWS_2:x }", "${ENVX:y}", "${A:b:c}", "${unknown}",
     "${aws:x}", "${1A:x}", "${_A:x}", "${A b:c}", "${AWS:x}-${unknown}${ctx.env}"}
PatternShapes ==
    {Shape(<<"*", "k">>, "=", Str(t)) : t \in PatternTexts}
    \cup {Shape(<<"*", "n">>, "=", Arr(<<Num(0), Bool(TRUE), Null, Str("${Aws:x}")>>)),
          Shape(<<"*", "n">>, "+=", Str("${VAULT:p}"))}

InitPattern == Entered(PatternShapes, Env, {ProdOnly})

SpecPattern == InitPattern /\ [][Next]_vars

\* loadColony with the provider AWS registered: rules whose strings hold placeholders and
\* secret references, substituted values that hold some themselves, and spans that only
\* come about when a neighbour is replaced by the empty string
TwiceTexts ==
    {"$${VAR:u}{ENV:A}", "${ENV:P}", "${AWS:db}", "$${XX:a}{AWS:db}", "${AWS:ref}",
     "${AWS:gone}", "$$$$"}
TwiceShapes ==
    {Shape(<<"*", "k">>, "=", Str(t)) : t \in TwiceTexts}
    \cup {Shape(<<"*", "l">>, "+=", Str("${AWS:db}-${unknown}"))}

TwiceOpts ==
    [vars |-> [n \in {"a"} |-> Str("x")],
     env |-> [given |-> FALSE, map |-> <<>>],
     processEnv |-> [n \in {"A", "P"} |-> IF n = "A" THEN Str("1") ELSE Str("${VAR:a}")],
     allowedEnvVars |-> NoList, allowedVars |-> NoList]

\* index.js, lines 96-110: the options loadColony hands to applySecretsDeep
LoadSecretOpts(onNotFound) ==
    [providers |-> <<>>, allowedSecrets |-> [restricted |-> FALSE, patterns |-> <<>>],
     cache |-> TRUE, cacheTtl |-> 300000, onNotFound |-> onNotFound]

AwsRegistered == [px \in {"AWS"} |-> "aws"]

InitTwice ==
    /\ ResolverEntered(TwiceShapes, Env, {ProdOnly}, {TwiceOpts})
    /\ input = Undef
    /\ sopts = LoadSecretOpts("warn")
    /\ globalRegistry = AwsRegistered
    /\ cache = NewSecretCache(100)
    /\ NoCalls
    /\ NoParse
    /\ NoDiff
    /\ NoLoader

SpecTwice == InitTwice /\ [][NextLoad]_vars

\* applySecretsDeep under allow-lists: references that are listed by full key, by key or
\* by glob, that are not listed, and one whose key holds a ':'; with and without cached
\* values for them
BlockedTexts ==
    {"${AWS:db}", "${AWS:other}", "${AWS:db:admin}", "${MOCK:myapp/db}",
     "x${AWS:other}y${AWS:db}"}
BlockedTrees == {Arr(<<Str(t1), Str(t2)>>) : t1, t2 \in BlockedTexts}

Patterns(list) == [restricted |-> TRUE, patterns |-> list]
NoPatterns == [restricted |-> FALSE, patterns |-> <<>>]
MockProvider == [prefix |-> "mock", id |-> "vault"]
BlockedOpts ==
    {[providers |-> <<MockProvider>>, allowedSecrets |-> a, cache |-> TRUE,
      cacheTtl |-> 300000, onNotFound |-> "warn"] :
        a \in {Patterns(<<"db">>), Patterns(<<"AWS:db">>), Patterns(<<"myapp/*", "AWS:o*">>),
               Patterns(<<>>), NoPatterns}}

CachedEntry(key, value) == [key |-> key, value |-> Str(value), expires |-> 300000]
BlockedCaches ==
    {<<>>, <<CachedEntry("AWS:other", "c1"), CachedEntry("AWS:db:admin", "c2"),
             CachedEntry("AWS:db", "c3")>>}

InitBlocked == SecretsEntered(BlockedTrees, BlockedOpts, BlockedCaches, AwsRegistered)

SpecBlocked == InitBlocked /\ [][NextSecrets]_vars

\* applySecretsDeep on references with and without a provider: XX and YY have none, AWS is
\* registered globally and MOCK by the call, in lower case; once, twice and with padding;
\* with and without an allow-list, a cache, a cached value, an expired cached value
UnknownTexts ==
    {"${XX:key}", "${XX: key }-${XX:key}", "${XX:key}${YY:key}", "${XX:other}",
     "${AWS:db}", "${MOCK:a}"}
UnknownTrees == {Arr(<<Str(t1), Str(t2)>>) : t1, t2 \in UnknownTexts}

UnknownOpts ==
    {[providers |-> <<MockProvider>>, allowedSecrets |-> a, cache |-> c,
      cacheTtl |-> 300000, onNotFound |-> "warn"] :
        a \in {NoPatterns, Patterns(<<"AWS:*", "key">>), Patterns(<<>>)},
        c \in {TRUE, FALSE}}

ExpiredEntry(key, value) == [key |-> key, value |-> Str(value), expires |-> -1]
UnknownCaches == {<<>>, <<CachedEntry("XX:key", "c1"), ExpiredEntry("YY:key", "c2")>>}

InitUnknown == SecretsEntered(UnknownTrees, UnknownOpts, UnknownCaches, AwsRegistered)

SpecUnknown == InitUnknown /\ [][NextSecrets]_vars

\* applySecretsDeep under the three onNotFound policies: references whose fetch gives a
\* value, gives null, fails as not found, fails otherwise; calls that overlap and share
\* one cache
PolicyTexts ==
    {"${AWS:db}", "${AWS:gone}", "${AWS:down}", "${AWS:none}", "${AWS:gone}-${AWS:db}"}
PolicyTrees == {Arr(<<Str(t1), Str(t2)>>) : t1, t2 \in PolicyTexts}

PolicyOpts ==
    {[providers |-> <<>>, allowedSecrets |-> NoPatterns, cache |-> TRUE,
      cacheTtl |-> 300000, onNotFound |-> p] : p \in {"empty", "warn", "error"}}

InitPolicy == SecretsEntered(PolicyTrees, PolicyOpts, {<<>>}, AwsRegistered)

SpecPolicy == InitPolicy /\ [][NextSecrets]_vars

\* no resolveRules and no applySecretsDeep call is made
NoLoad ==
    /\ NoResolver
    /\ input = Undef
    /\ sopts = DefaultSecretOpts
    /\ globalRegistry = <<>>
    /\ cache = NewSecretCache(100)
    /\ NoCalls

\* cfg.diff(other) on two returned configs. cfg is what resolveRules returns for rules that
\* write a, b, c, a.b and the key `a\.b`; other is what another call returned: the trees
\* of the repository's test, nested mappings, a key with a dot in it, sequences that hold a
\* sequence and a mapping, null and an empty mapping
DiffShapes ==
    {Shape(<<"*", "a">>, "=", Num(1)), Shape(<<"*", "b">>, "=", Num(2)),
     Shape(<<"*", "c">>, "=", Num(4)), Shape(<<"*", "a", "b">>, "=", Num(1)),
     Shape(<<"*", "a.b">>, "=", Num(1)), Shape(<<"*", "a">>, "=", Arr(<<Arr(<<Num(1)>>)>>)),
     Shape(<<"*", "c">>, "+=", Arr(<<Num(5)>>))}
DiffTrees ==
    {Obj2("a", Num(1), "b", Num(2)),
     Obj2("b", Num(3), "c", Num(4)),
     Obj1("a", Obj1("b", Num(1))),
     Obj2("a", Obj1("b", Num(2)), "c", Num(4)),
     Obj1("a.b", Num(1)),
     Obj1("a.b", Num(2)),
     Obj1("a", Arr(<<Arr(<<Num(1)>>)>>)),
     Obj1("a", Arr(<<Obj1("0", Num(1))>>)),
     Obj1("a", Null),
     Obj1("a", EmptyObj)}

InitDiff ==
    /\ ResolverEntered(DiffShapes, Env, {ProdOnly}, {NoOpts})
    /\ input = Undef
    /\ sopts = DefaultSecretOpts
    /\ globalRegistry = <<>>
    /\ cache = NewSecretCache(100)
    /\ NoCalls
    /\ NoParse
    /\ diffed = <<>>
    /\ other \in DiffTrees
    /\ NoLoader

SpecDiff == InitDiff /\ [][Next \/ NextDiff]_vars

\* Calls of applySecretsDeep between calls that register, unregister and clear global
\* providers: prefixes in lower, upper and mixed case, two providers for AWS, one without
\* a prefix; the call comes with no provider of its own or with one for AWS, and a call
\* is made when the one before it has returned
RegProviders ==
    {[prefix |-> "aws", id |-> "aws"], [prefix |-> "AWS", id |-> "vault"],
     [prefix |-> "Vault", id |-> "vault"], [prefix |-> "", id |-> "aws"]}
RegPrefixes == {"aws", "VAULT"}
RegTrees == {Arr(<<Str("${AWS:db}")>>)}
RegOpts ==
    {[providers |-> ps, allowedSecrets |-> NoPatterns, cache |-> FALSE,
      cacheTtl |-> 300000, onNotFound |-> "warn"] :
        ps \in {<<>>, <<[prefix |-> "Aws", id |-> "local"]>>}}

InitRegistry == SecretsEntered(RegTrees, RegOpts, {<<>>}, <<>>)

NextRegistry ==
    \/ \E provider \in RegProviders : registerSecretProvider(provider)
    \/ \E prefix \in RegPrefixes : unregisterSecretProvider(prefix)
    \/ clearSecretProviders
    \/ NoneAwaited /\ applySecretsDeep
    \/ \E c \in 1..Len(calls) : \E j \in 1..Len(calls[c].pending) : Settle(c, j)
    \/ \E c \in 1..Len(calls) : Return(c)

SpecRegistry == InitRegistry /\ [][NextRegistry]_vars

\* most lines drawn for a text handed to parseColony
MaxLines == 3

\* parseColony on statements with a line comment after their ';', as the examples of the
\* playground have them (`prod.log.level = "warn";  # This wins over :=`), among
\* statements without one, comment lines and empty lines
TrailingTexts ==
    {"a = 1;  # c", "b = 2;", "k = \"warn\";  // d", "*.x |= { y: 1 };", "# e", "// f", ""}

InitTrailing ==
    /\ NoLoad
    /\ \E n \in 1..MaxLines : \E sh \in [1..n -> TrailingTexts] : fileText = sh
    /\ parser = Locals("start", <<>>, <<>>)
    /\ NoDiff
    /\ NoLoader

SpecTrailing == InitTrailing /\ [][NextParse]_vars

\* Secret references as they can be written: plain, padded inside the braces, padded
\* after the colon, with an empty key, to a key the provider lacks, to an unregistered
\* provider, and two in one text
SpanTexts ==
    {"${AWS:db}", "${ AWS:db }", "${AWS: db }", "${A:}", "${AWS:gone}", "${VAULT:db}",
     "x${AWS:db}y${ AWS:db}"}
SpanShapes ==
    {Shape(<<"*", "k">>, "=", Str(t)) : t \in SpanTexts}
    \cup {Shape(<<"*", "l">>, "+=", Str("${AWS:db }"))}

InitSpans ==
    /\ ResolverEntered(SpanShapes, Env, {ProdOnly}, {TwiceOpts})
    /\ input = Undef
    /\ sopts = LoadSecretOpts("warn")
    /\ globalRegistry = AwsRegistered
    /\ cache = NewSecretCache(100)
    /\ NoCalls
    /\ NoParse
    /\ NoDiff
    /\ NoLoader

SpecSpans == InitSpans /\ [][NextLoad]_vars

\* Rules for a key path and for one it is a strict prefix of, with every primary
\* operator, mapping and other values, a more specific and a non-matching scope
OrderShapes ==
    {Shape(<<"*", "a">>, op, v) : op \in {"=", ":=", "|="}, v \in {Obj1("d", Num(0)), Num(0)}}
    \cup {Shape(<<"*", "a", "b">>, op, Num(0)) : op \in {"=", ":=", "|="}}
    \cup {Shape(<<"prod", "a">>, "=", Obj1("b", Num(0))),
          Shape(<<"prod", "a", "b">>, "|=", Obj1("e", Num(0))),
          Shape(<<"dev", "a">>, "=", Num(0)),
          Shape(<<"*", "a", "b">>, "+=", Num(0))}

InitOrder == Entered(OrderShapes, Env, {ProdOnly})

SpecOrder == InitOrder /\ [][Next]_vars

\* the deepest nesting that sandbox.maxIncludeDepth allows in the loads below
MaxIncludeDepth == 3

\* The file f whose @include lines resolve to the files incs, in that order. Its rules:
\* *.<f> = "f", *.<g> = "f" for every file g it includes, and *.all += ["f"].
File(f, incs) ==
    [includes |-> incs, dims |-> <<>>, envDefaults |-> <<>>,
     rules |-> <<Shape(<<"*", f>>, "=", Str(f))>>
               \o [i \in 1..Len(incs) |-> Shape(<<"*", incs[i]>>, "=", Str(f))]
               \o <<Shape(<<"*", "all">>, "+=", Arr(<<Str(f)>>))>>]

\* what the @include lines of a file resolve to: nothing, one file or two files
IncludeLists(F) ==
    {<<>>} \cup {<<f>> : f \in F} \cup {<<f, g>> : f \in F, g \in F}

\* every include graph over three files: chains, trees, self-includes and cycles
SmallDisks ==
    {[f \in {"a", "b", "c"} |-> File(f, g[f])] : g \in [{"a", "b", "c"} -> IncludeLists({"a", "b"})]}
    \cup {[f \in {"a", "b", "c"} |-> File(f, g[f])] :
            g \in [{"a", "b", "c"} -> {<<>>, <<"a">>, <<"b">>, <<"c">>, <<"c", "b">>, <<"b", "c">>}]}

\* test/security.test.js 93-113: a includes b, b includes c, c includes d, d includes e
ChainDisk ==
    [f \in {"a", "b", "c", "d", "e"} |->
       File(f, IF f = "a" THEN <<"b">> ELSE IF f = "b" THEN <<"c">>
               ELSE IF f = "c" THEN <<"d">> ELSE IF f = "d" THEN <<"e">> ELSE <<>>)]

\* a includes c and b, b includes c, c includes d: d lies three includes deep by way of b
\* and two deep by way of c alone
DiamondDisk ==
    [f \in {"a", "b", "c", "d"} |->
       File(f, IF f = "a" THEN <<"c", "b">> ELSE IF f = "b" THEN <<"c">>
               ELSE IF f = "c" THEN <<"d">> ELSE <<>>)]

\* loadColony is called on a file of the disk D with the options O under NODE_ENV of N
LoaderEntered(D, O, N) ==
    /\ NoResolver
    /\ input = Undef
    /\ sopts = DefaultSecretOpts
    /\ globalRegistry = <<>>
    /\ cache = NewSecretCache(100)
    /\ NoCalls
    /\ NoParse
    /\ NoDiff
    /\ disk \in D
    /\ \E o \in O : \E n \in N : o.entry \in DOMAIN disk /\ loader = Loader("start", o, n)

InitIncludes ==
    LoaderEntered(SmallDisks \cup {ChainDisk, DiamondDisk},
                  [entry : {"a", "b"}, maxIncludeDepth : 0..MaxIncludeDepth,
                   dims : {<<>>}, ctx : {<<>>}],
                  {Undef})

SpecIncludes == InitIncludes /\ [][NextLoader]_vars

\* expandIncludes runs to its end: an async function whose awaited reads settle
SpecIncludesLive == SpecIncludes /\ WF_vars(NextIncludes)

\* what an @envDefaults line of a file can declare
EnvDefaultMaps ==
    {<<>>,
     [k \in {"env"} |-> Str("prod")],
     [k \in {"env"} |-> Str("stage")],
     [k \in {"region"} |-> Str("us")],
     [k \in {"env", "region"} |-> IF k = "env" THEN Str("prod") ELSE Str("eu")]}

\* main.colony declares the dimensions and includes base.colony; both may declare
\* defaults; the rules tell the contexts apart
CtxDisks ==
    {[f \in {"base", "main"} |->
        IF f = "main"
        THEN [includes |-> <<"base">>, dims |-> <<"env", "region">>, envDefaults |-> m,
              rules |-> <<Shape(<<"prod", "*", "k">>, "=", Str("prod")),
                          Shape(<<"*", "us", "k">>, "=", Str("us")),
                          Shape(<<"*", "*", "seen">>, "+=", Arr(<<Str("main")>>))>>]
        ELSE [includes |-> <<>>, dims |-> <<>>, envDefaults |-> b,
              rules |-> <<Shape(<<"*", "*", "k">>, "=", Str("any"))>>]] :
     m \in EnvDefaultMaps, b \in EnvDefaultMaps}

InitCtx ==
    LoaderEntered(CtxDisks,
                  [entry : {"main"}, maxIncludeDepth : {50}, dims : {<<>>},
                   ctx : {<<>>, [k \in {"env"} |-> Str("test")],
                          [k \in {"region"} |-> Str("us")],
                          [k \in {"env", "region"} |-> IF k = "env" THEN Str("prod")
                                                       ELSE Str("ap")]}],
                  {Undef, Str("production")})

SpecCtx == InitCtx /\ [][NextLoader]_vars

\* parseColony on a heredoc: after its start line come lines that end with ';', that
\* start with '#' or '//', that hold a block comment, an empty line, a rule, the delimiter
HeredocTexts == {"EOF", "a = 1;", "# c", "//d", "SELECT /* m */ 1", "", " x  "}

InitHeredoc ==
    /\ NoLoad
    /\ \E n \in 1..MaxLines : \E sh \in [1..n -> HeredocTexts] :
          fileText = <<"k = <<EOF">> \o sh
    /\ parser = Locals("start", <<>>, <<>>)
    /\ NoDiff
    /\ NoLoader

SpecHeredoc == InitHeredoc /\ [][NextParse]_vars

\* parseColony on block comments: comments that open and close on one line or on several,
\* nested ones, a closing mark with no comment open, statements on one line and on two
CommentTexts ==
    {"/* c", "c */ x = 1;", "/* c /* c */ c */ y = 2;", "x = 1;", "*/", "z =", "3; /* c */",
     ""}

InitComments ==
    /\ NoLoad
    /\ \E n \in 1..MaxLines : \E sh \in [1..n -> CommentTexts] : fileText = sh
    /\ parser = Locals("start", <<>>, <<>>)
    /\ NoDiff
    /\ NoLoader

SpecComments == InitComments /\ [][NextParse]_vars

\* A caller's own use of a SecretCache of a small size as the clock goes on: three keys
\* with a lifetime each, a value that tells the set calls apart, the pattern-less
\* invalidate and one with a glob
CacheKeys == {"AWS:db", "AWS:none", "VAULT:db"}
CacheTtl(key) == IF key = "AWS:none" THEN 2 ELSE 1
CacheValue(n) == Str("v" \o NumToString(n))
CachePatterns == {Undef, Str("AWS:*")}
CacheSizes == {2}

InitOps ==
    /\ NoResolver
    /\ input = Undef
    /\ sopts = DefaultSecretOpts
    /\ globalRegistry = <<>>
    /\ \E m \in CacheSizes : cache = NewSecretCache(m)
    /\ NoCalls
    /\ NoParse
    /\ NoDiff
    /\ NoLoader

NextOps ==
    \/ \E key \in CacheKeys : set(key, CacheValue(Len(opLog) + 1), CacheTtl(key))
    \/ \E key \in CacheKeys : get(key)
    \/ \E pattern \in CachePatterns : invalidate(pattern)
    \/ Tick

SpecOps == InitOps /\ [][NextOps]_vars

\* Calls one after the other that share a cache with a short lifetime as the clock goes on:
\* references that repeat, one whose fetch fails, a cache of size 1 and one with room,
\* empty or holding a value for AWS:db that expires at time 1
SharedTexts == {"${AWS:db}", "${AWS:gone}", "${AWS:none}-${AWS:db}"}
SharedTrees == {Arr(<<Str(t1), Str(t2)>>) : t1, t2 \in SharedTexts}
SharedOpts ==
    [providers |-> <<>>, allowedSecrets |-> NoPatterns, cache |-> TRUE,
     cacheTtl |-> 1, onNotFound |-> "warn"]
SharedCaches ==
    {NewSecretCache(1), NewSecretCache(100),
     [maxSize |-> 100, entries |-> <<[key |-> "AWS:db", value |-> Str("old"), expires |-> 1]>>]}

InitShared ==
    /\ NoResolver
    /\ input \in SharedTrees
    /\ sopts = SharedOpts
    /\ globalRegistry = AwsRegistered
    /\ cache \in SharedCaches
    /\ NoCalls
    /\ NoParse
    /\ NoDiff
    /\ NoLoader

NextShared ==
    \/ NoneAwaited /\ applySecretsDeep
    \/ \E c \in 1..Len(calls) : \E j \in 1..Len(calls[c].pending) : Settle(c, j)
    \/ \E c \in 1..Len(calls) : Return(c)
    \/ Tick

SpecShared == InitShared /\ [][NextShared]_vars

\* Calls that overlap and a caller's own use of the cache they share: caches of the sizes
\* 0, 1 and 2, a reference a call and a key the caller sets
SizesTrees == {Arr(<<Str("${AWS:db}")>>), Arr(<<Str("${AWS:none}")>>)}
SizesSizes == {0, 1, 2}

\* most calls the caller makes of the cache's methods while applySecretsDeep calls run
MaxMixed == 2
Few == Len(opLog) < MaxMixed

InitSizes ==
    /\ NoResolver
    /\ input \in SizesTrees
    /\ sopts = SharedOpts
    /\ globalRegistry = AwsRegistered
    /\ \E m \in SizesSizes : cache = NewSecretCache(m)
    /\ NoCalls
    /\ NoParse
    /\ NoDiff
    /\ NoLoader

NextSizes ==
    \/ applySecretsDeep
    \/ \E c \in 1..Len(calls) : \E j \in 1..Len(calls[c].pending) : Settle(c, j)
    \/ \E c \in 1..Len(calls) : Return(c)
    \/ Few /\ set("VAULT:db", CacheValue(Len(opLog) + 1), CacheTtl("VAULT:db"))
    \/ Few /\ get("AWS:db")
    \/ Few /\ invalidate(Str("AWS:*"))

SpecSizes == InitSizes /\ [][NextSizes]_vars

----------------------------------------------------------------------------
(* The vocabulary of the claims, stated on the input of the call *)

ScopeOf(r) == SubSeq(r.keySegments, 1, Len(dims))

KeyPathOf(r) == SubSeq(r.keySegments, Len(dims) + 1, Len(r.keySegments))

\* the context value of a dimension; a dimension the context lacks counts as ""
CtxValue(d) == IF d \in DOMAIN ctx THEN ctx[d].s ELSE ""

RuleMatches(r) ==
    \A i \in 1..Len(dims) : ScopeOf(r)[i] = "*" \/ ScopeOf(r)[i] = CtxValue(dims[i])

\* number of non-'*' scope tokens
Specificity(r) == Cardinality({i \in 1..Len(dims) : ScopeOf(r)[i] # "*"})

IsPrimary(r) == r.op \in {"=", ":=", "|="}

IsDeferred(r) == r.op \in {"+=", "-="}

\* the lines of the matching primary rules for the key path of rule r
Candidates(r) ==
    {j \in 1..Len(rules) :
        RuleMatches(rules[j]) /\ IsPrimary(rules[j]) /\ KeyPathOf(rules[j]) = KeyPathOf(r)}

\* the value a tree of mappings holds at a key path (undefined when there is none)
RECURSIVE ValueAt(_, _)
ValueAt(tree, path) ==
    IF path = <<>> THEN tree
    ELSE IF tree.t # "obj" THEN Undef
    ELSE IF Head(path) \notin DOMAIN tree.o THEN Undef
    ELSE ValueAt(tree.o[Head(path)], Tail(path))

\* v occurs in tree as a value, or k as a key
RECURSIVE Occurs(_, _, _)
Occurs(tree, v, k) ==
    \/ tree = v
    \/ tree.t = "arr" /\ \E i \in 1..Len(tree.a) : Occurs(tree.a[i], v, k)
    \/ tree.t = "obj" /\ (k \in DOMAIN tree.o \/ \E x \in DOMAIN tree.o : Occurs(tree.o[x], v, k))

Running == pc \in {"primary", "post", "done"}

----------------------------------------------------------------------------
(* Winner selection *)

\* C1: the rule selected for a key path is a matching primary rule for it whose
\* specificity is >= that of every other such candidate, and among the candidates of
\* that maximal specificity it is the latest in rule order; once the primary loop is
\* over every key path with a candidate has had exactly one winner selected.
C1_WinnerIsMostSpecificLatest ==
    Running =>
        /\ \A n \in 1..ki :
              LET w == applied[n]
              IN /\ w \in Candidates(rules[w])
                 /\ \A j \in Candidates(rules[w]) :
                       /\ Specificity(rules[j]) <= Specificity(rules[w])
                       /\ Specificity(rules[j]) = Specificity(rules[w]) => j <= w
                 /\ \A m \in 1..ki : KeyPathOf(rules[applied[m]]) = KeyPathOf(rules[w]) => m = n
        /\ pc \in {"post", "done"} =>
              \A j \in 1..Len(rules) :
                  RuleMatches(rules[j]) /\ IsPrimary(rules[j]) =>
                      \E n \in 1..ki : KeyPathOf(rules[applied[n]]) = KeyPathOf(rules[j])

\* Three candidates for one key: the winner ties with an earlier rule and beats a later,
\* less specific one.
C1_Witness ==
    /\ pc = "done"
    /\ Len(rules) = 3
    /\ Candidates(rules[1]) = {1, 2, 3}
    /\ Specificity(rules[1]) = Specificity(rules[2])
    /\ Specificity(rules[3]) < Specificity(rules[2])
    /\ ScopeOf(rules[1]) # ScopeOf(rules[2])
    /\ applied = <<2>>
    /\ ValueAt(cfg, <<"k">>) = rules[2].value

\* C4 as claimed: with exactly one matching = rule and one matching := rule for the
\* same key path (and no other rule), the resolved value is the = rule's value.
C4_SetBeatsSetIfMissing ==
    (pc = "done" /\ Len(rules) = 2) =>
        \A i, j \in 1..2 :
            (/\ rules[i].op = "=" /\ rules[j].op = ":="
             /\ RuleMatches(rules[i]) /\ RuleMatches(rules[j])
             /\ KeyPathOf(rules[i]) = KeyPathOf(rules[j]))
            => ValueAt(cfg, KeyPathOf(rules[i])) = rules[i].value

----------------------------------------------------------------------------
(* Scope matching *)

\* the matching rules of the input, in order
RECURSIVE MatchingRules(_)
MatchingRules(n) ==
    IF n = 0 THEN <<>>
    ELSE IF RuleMatches(rules[n]) THEN Append(MatchingRules(n - 1), rules[n])
    ELSE MatchingRules(n - 1)

\* C2: only rules that match the context (token '*' or equal to the context value, a
\* missing dimension counting as "") are ever applied, and the rules that do not match
\* change nothing: tree, trace and returned config are those of the matching rules alone.
C2_OnlyMatchingRulesContribute ==
    /\ Running => \A n \in 1..Len(applied) : RuleMatches(rules[applied[n]])
    /\ pc = "done" =>
          LET alone == resolveRules(MatchingRules(Len(rules)), dims, ctx, opts)
          IN out = alone.out /\ trace = alone.trace /\ cfg = alone.cfg

\* A context without region: a rule with an empty region token is applied, rules with a
\* token in another case and with a region token are not.
C2_Witness ==
    /\ pc = "done"
    /\ "region" \notin DOMAIN ctx
    /\ Len(rules) = 3
    /\ ScopeOf(rules[1]) = <<"prod", "">>
    /\ ScopeOf(rules[2]) = <<"Prod", "*">>
    /\ ScopeOf(rules[3]) = <<"prod", "us">>
    /\ applied = <<1>>
    /\ DOMAIN trace = {"k"}

----------------------------------------------------------------------------
(* The primary operators *)

\* the key path of the rule the loop body selects in this step
StepKeyPath == KeyPathOf(rules[winner'.line])

\* C3: a step that applies a := winner while a value is present at its key path
\* leaves the tree unchanged.
C3_SetIfMissingKeepsExisting ==
    [][(ki' = ki + 1 /\ winner'.op = ":=" /\ ValueAt(out, StepKeyPath) # Undef)
         => out' = out]_vars

\* a.b := 9 applied after a = { b: null }: the null written by = is still there.
C3_Witness ==
    /\ pc = "primary"
    /\ applied = <<1, 2>>
    /\ rules[1].op = "="
    /\ winner.op = ":=" /\ winner.keyPath = <<"a", "b">>
    /\ out = Obj1("a", Obj1("b", Null))

\* r is the per-key union of the mappings e and v: keys of e alone kept, mappings on
\* both sides united recursively, every other key taken from v
RECURSIVE IsUnion(_, _, _)
IsUnion(r, e, v) ==
    /\ r.t = "obj"
    /\ DOMAIN r.o = (DOMAIN e.o) \cup (DOMAIN v.o)
    /\ \A k \in DOMAIN r.o :
          IF k \notin DOMAIN v.o THEN r.o[k] = e.o[k]
          ELSE IF k \notin DOMAIN e.o THEN r.o[k] = v.o[k]
          ELSE IF e.o[k].t = "obj" /\ v.o[k].t = "obj" THEN IsUnion(r.o[k], e.o[k], v.o[k])
          ELSE r.o[k] = v.o[k]

\* C5: a step that applies a |= winner leaves at its key path the per-key union of the
\* existing value and the rule's value when both are mappings, and the rule's value
\* otherwise.
C5_MergeIsPerKeyUnion ==
    [][(ki' = ki + 1 /\ winner'.op = "|=")
         => LET e == ValueAt(out, StepKeyPath)
                v == rules[winner'.line].value
                r == ValueAt(out', StepKeyPath)
            IN IF e.t = "obj" /\ v.t = "obj" THEN IsUnion(r, e, v) ELSE r = v]_vars

\* a.x = 1; a.b = { c: 1, x: 1 }; a |= { b: { c: 2, d: 2 } }: x is kept at both levels,
\* c is replaced, d is added.
C5_Witness ==
    /\ pc = "primary"
    /\ applied = <<1, 2, 3>>
    /\ winner.op = "|=" /\ winner.keyPath = <<"a">>
    /\ out = Obj1("a", Obj2("x", Num(1), "b",
                   Obj([k \in {"c", "d", "x"} |-> IF k = "x" THEN Num(1) ELSE Num(2)])))

----------------------------------------------------------------------------
(* The deferred operators *)

\* C7: in the order of application no primary winner follows a deferred rule, a
\* deferred rule is applied only once every key path with a candidate has had its
\* winner applied, deferred rules follow each other by ascending specificity and, at
\* equal specificity, in rule order; in the end every matching deferred rule was applied.
C7_DeferredAfterPrimaryAscending ==
    Running =>
        /\ \A n \in 1..Len(applied) :
              IsDeferred(rules[applied[n]]) =>
                  /\ \A m \in (n + 1)..Len(applied) :
                        LET a == rules[applied[n]]
                            b == rules[applied[m]]
                        IN /\ IsDeferred(b)
                           /\ \/ Specificity(a) < Specificity(b)
                              \/ Specificity(a) = Specificity(b) /\ applied[n] < applied[m]
                  /\ \A j \in 1..Len(rules) :
                        RuleMatches(rules[j]) /\ IsPrimary(rules[j]) =>
                            \E m \in 1..(n - 1) :
                                /\ IsPrimary(rules[applied[m]])
                                /\ KeyPathOf(rules[applied[m]]) = KeyPathOf(rules[j])
        /\ pc = "done" =>
              \A j \in 1..Len(rules) :
                  RuleMatches(rules[j]) /\ IsDeferred(rules[j]) =>
                      \E n \in 1..Len(applied) : applied[n] = j

\* prod.*.k += [1]; *.*.k = [1, 2]; *.*.k -= [1]: the = on line 2 first, then the less
\* specific -= of line 3, then the += of line 1.
C7_Witness ==
    /\ pc = "done"
    /\ Len(rules) = 3
    /\ rules[1].op = "+=" /\ rules[2].op = "=" /\ rules[3].op = "-="
    /\ applied = <<2, 3, 1>>
    /\ ValueAt(cfg, <<"k">>) = Arr(<<Num(2), Num(1)>>)

\* rules i and i + 1 are matching += rules with the same scope and key path and array
\* values
AppendPair(i) ==
    /\ rules[i].op = "+=" /\ rules[i + 1].op = "+="
    /\ rules[i].keySegments = rules[i + 1].keySegments
    /\ rules[i].value.t = "arr" /\ rules[i + 1].value.t = "arr"
    /\ RuleMatches(rules[i])

\* the rule list with the pair at i replaced by one += of the concatenated arrays
MergedAt(i) ==
    [j \in 1..(Len(rules) - 1) |->
        IF j < i THEN rules[j]
        ELSE IF j = i THEN [rules[i] EXCEPT !.value = Arr(rules[i].value.a \o rules[i + 1].value.a)]
        ELSE rules[j + 1]]

\* C9: two adjacent matching += rules with the same scope and key path leave at the key
\* the sequence that the single rule += of both arrays, put in their place, leaves.
C9_AppendAssociative ==
    pc = "done" =>
        \A i \in 1..(Len(rules) - 1) :
            AppendPair(i) =>
                ValueAt(cfg, KeyPathOf(rules[i]))
                    = ValueAt(resolveRules(MergedAt(i), dims, ctx, opts).cfg, KeyPathOf(rules[i]))

\* k = 1; k += [1]; k += [2] gives [1, 1, 2], the scalar coerced once.
C9_Witness ==
    /\ pc = "done"
    /\ Len(rules) = 3
    /\ rules[1].op = "=" /\ rules[1].value = Num(1)
    /\ AppendPair(2)
    /\ rules[2].value # rules[3].value
    /\ ValueAt(cfg, <<"k">>) = Arr(<<Num(1), Num(1), Num(2)>>)

\* C10: a step that applies a -= rule while its key path holds no array (a scalar, a
\* mapping, null or nothing) leaves the tree unchanged, and the call goes on.
C10_RemoveFromNonSequenceIsNoOp ==
    [][(pi' = pi + 1 /\ winner'.op = "-=" /\ ValueAt(out, StepKeyPath).t # "arr")
         => (out' = out /\ pc' = "post")]_vars

\* a -= applied to a key holding a mapping
C10_Witness ==
    /\ pc = "post"
    /\ pi >= 1
    /\ winner.op = "-="
    /\ ValueAt(out, winner.keyPath) = Obj1("b", Num(1))

----------------------------------------------------------------------------
(* The timeout example *)

ExampleAsPrinted == MkRules(<<Timeout1, TimeoutProd, TimeoutProdUs>>)

ExampleWithTwoScopeTokens == MkRules(<<Timeout2, TimeoutProd, TimeoutProdUs>>)

Returned == pc \in {"done", "error"}

\* C8 as claimed: the rules as printed resolve to timeout = 2000 under {prod, eu} and to
\* timeout = 3000 under {prod, us}.
C8_ExampleAsPrinted ==
    (rules = ExampleAsPrinted /\ Returned) =>
        /\ pc = "done"
        /\ ctx = ProdEu => ValueAt(cfg, <<"timeout">>) = Num(2000)
        /\ ctx = ProdUs => ValueAt(cfg, <<"timeout">>) = Num(3000)

\* C8 amended: with the first rule written *.*.timeout = 1000 the call returns
\* timeout = 2000 under {prod, eu} and timeout = 3000 under {prod, us}.
C8_ExampleWithTwoScopeTokens ==
    (rules = ExampleWithTwoScopeTokens /\ Returned) =>
        /\ pc = "done"
        /\ ctx = ProdEu => ValueAt(cfg, <<"timeout">>) = Num(2000)
        /\ ctx = ProdUs => ValueAt(cfg, <<"timeout">>) = Num(3000)

C8_Witness ==
    /\ rules = ExampleWithTwoScopeTokens
    /\ pc = "done"
    /\ ctx = ProdEu
    /\ cfg = Obj1("timeout", Num(2000))

----------------------------------------------------------------------------
(* Structural validation *)

\* C11: while some rule of the input has fewer than |dims| + 1 key segments, matching
\* the context or not, the call never gets past validation: it is at its start or has
\* thrown, no rule was applied and there is neither a tree nor a returned config.
C11_MalformedRuleAborts ==
    (\E i \in 1..Len(rules) : Len(rules[i].keySegments) < Len(dims) + 1) =>
        /\ pc \in {"start", "error"}
        /\ applied = <<>>
        /\ out = EmptyObj
        /\ trace = <<>>
        /\ cfg = Undef

\* The call has thrown on a last rule *.k that does not match the context, after two
\* well-formed matching rules, none of which was applied.
C11_Witness ==
    /\ pc = "error"
    /\ Len(rules) = 3
    /\ rules[3].keySegments = <<"*", "k">>
    /\ \A i \in 1..2 : Len(rules[i].keySegments) = 3 /\ RuleMatches(rules[i])
    /\ applied = <<>>
    /\ out = EmptyObj

----------------------------------------------------------------------------
(* The trace *)

\* the rule the loop body handles in this step, and its key as explain() takes it
StepRule == rules[winner'.line]
StepKey == JoinDots(KeyPathOf(StepRule))

\* the step writes the tree: =, |= and += always do, := when nothing is at the key
\* path, -= when a sequence is there
StepWrites ==
    CASE StepRule.op = ":=" -> ValueAt(out, KeyPathOf(StepRule)) = Undef
      [] StepRule.op = "-=" -> ValueAt(out, KeyPathOf(StepRule)).t = "arr"
      [] OTHER -> TRUE

\* what a trace entry says of rule r
TraceOf(r) ==
    [op |-> r.op, scope |-> ScopeOf(r), specificity |-> Specificity(r),
     filePath |-> r.filePath, line |-> r.line, col |-> r.col]

\* C12: a step in which a rule writes its key path records under that key the operator,
\* scope, origin and specificity of that rule and touches no other entry; a step in
\* which the rule does not write (a := winner that finds a value) leaves the trace as
\* it is.
C12_TraceFollowsWrites ==
    [][(ki' = ki + 1 \/ pi' = pi + 1) =>
          IF StepWrites
          THEN /\ DOMAIN trace' = (DOMAIN trace) \cup {StepKey}
               /\ trace'[StepKey] = TraceOf(StepRule)
               /\ \A k \in DOMAIN trace : k # StepKey => trace'[k] = trace[k]
          ELSE trace' = trace]_vars

\* a = { b: 1 }; a.b := 9: the := winner found the 1 and the trace holds the entry of
\* a alone.
C12_Witness ==
    /\ pc = "primary"
    /\ applied = <<1, 2>>
    /\ rules[1].op = "=" /\ KeyPathOf(rules[1]) = <<"a">>
    /\ winner.op = ":=" /\ winner.keyPath = <<"a", "b">>
    /\ out = Obj1("a", Obj1("b", Num(1)))
    /\ DOMAIN trace = {"a"}
    /\ trace["a"] = TraceOf(rules[1])

\* p and the dot-notation paths of the mappings that enclose p
DotPrefixes(p) ==
    {SubSeq(p, 1, n) : n \in {m \in 1..Len(p) : m = Len(p) \/ CharAt(p, m + 1) = "."}}

KeyOf(r) == JoinDots(KeyPathOf(r))

\* the positions, in the order of writing, of the deferred rules that wrote key
DeferredWritesOn(key) ==
    {n \in 1..Len(written) : IsDeferred(rules[written[n]]) /\ KeyOf(rules[written[n]]) = key}

\* the positions, in the order of application, of the deferred rules for key
DeferredOn(key) ==
    {n \in 1..Len(applied) : IsDeferred(rules[applied[n]]) /\ KeyOf(rules[applied[n]]) = key}

\* C14 as claimed: for every key with an applied deferred rule, explain reports the
\* deferred rule applied last to it.
C14_LastDeferredExplained ==
    pc = "done" =>
        \A j \in 1..Len(rules) :
            LET on == DeferredOn(KeyOf(rules[j]))
            IN on # {} =>
                  explainByPath(trace, KeyOf(rules[j]))
                      = TraceOf(rules[applied[CHOOSE n \in on : \A m \in on : m <= n]])

\* C14 amended: for every key that a deferred rule wrote (a += rule, or a -= rule that
\* found a sequence there), explain reports the deferred rule that wrote it last.
C14_LastWritingDeferredExplained ==
    pc = "done" =>
        \A j \in 1..Len(rules) :
            LET on == DeferredWritesOn(KeyOf(rules[j]))
            IN on # {} =>
                  explainByPath(trace, KeyOf(rules[j]))
                      = TraceOf(rules[written[CHOOSE n \in on : \A m \in on : m <= n]])

\* a.b = [1]; a.b += 2; prod a.b -= 1: explain(a.b) reports the -= of line 3.
C14_Witness ==
    /\ pc = "done"
    /\ Len(rules) = 3
    /\ rules[1].op = "=" /\ rules[2].op = "+=" /\ rules[3].op = "-="
    /\ written = <<1, 2, 3>>
    /\ ValueAt(cfg, <<"a", "b">>) = Arr(<<Num(2)>>)
    /\ explainByPath(trace, "a.b") = TraceOf(rules[3])

----------------------------------------------------------------------------
(* The input rules *)

\* C15 as claimed: at every point of the call and after it each rule's value is what it
\* was when the call began.
C15_RulesNeverMutated ==
    \A i \in 1..Len(rules) : held[i] = rules[i].value

----------------------------------------------------------------------------
(* C16 *)

\* the names a list keeps out: every name when the list is [] and none without a list
Kept(list, n) == ~list.restricted \/ n \in list.names

\* The blocked references of the text s from position i on, as the warnings they must yield
RECURSIVE BlockedRefs(_, _)
BlockedRefs(s, i) ==
    IF i > Len(s) THEN EmptyBag
    ELSE IF SpanAt(s, i)
    THEN LET q == SpanEnd(s, i)
             e == trim(SubSeq(s, i + 2, q - 1))
             n == trim(SubSeq(e, 5, Len(e)))
             here == IF StartsWith(e, "ENV:") /\ ~Kept(opts.allowedEnvVars, n)
                     THEN SetToBag({[type |-> "blocked_env_var", var |-> n]})
                     ELSE IF StartsWith(e, "VAR:") /\ ~Kept(opts.allowedVars, n)
                     THEN SetToBag({[type |-> "blocked_var", var |-> n]})
                     ELSE EmptyBag
         IN here (+) BlockedRefs(s, q + 1)
    ELSE BlockedRefs(s, i + 1)

\* The string leaves of a tree, as a bag of texts
RECURSIVE StringLeaves(_)
RECURSIVE SumOver(_, _)
SumOver(f, D) ==
    IF D = {} THEN EmptyBag
    ELSE LET d == CHOOSE x \in D : TRUE IN f[d] (+) SumOver(f, D \ {d})

StringLeaves(v) ==
    IF v.t = "str" THEN SetToBag({v.s})
    ELSE IF isArray(v) THEN SumOver([i \in 1..Len(v.a) |-> StringLeaves(v.a[i])], 1..Len(v.a))
    ELSE IF isPlainObject(v) THEN SumOver([k \in DOMAIN v.o |-> StringLeaves(v.o[k])], DOMAIN v.o)
    ELSE EmptyBag

\* the blocked warnings the tree before substitution calls for
BlockedIn(tree) ==
    LET leaves == StringLeaves(tree)
        texts == BagToSet(leaves)
        Times(b, n) == [x \in DOMAIN b |-> b[x] * n]
    IN SumOver([t \in texts |-> Times(BlockedRefs(t, 1), leaves[t])], texts)

BlockedWarnings ==
    LET ws == {w \in BagToSet(warnings) : w.type \in {"blocked_env_var", "blocked_var"}}
    IN [w \in ws |-> warnings[w]]

\* a table with the names the list keeps out dropped, or given the value v
Without(m, list) == [n \in {x \in DOMAIN m : Kept(list, x)} |-> m[n]]
Masked(m, list, v) == [n \in DOMAIN m |-> IF Kept(list, n) THEN m[n] ELSE v]

\* the options with every non-allowed variable unset, and nothing blocked
Unset ==
    [vars |-> Without(opts.vars, opts.allowedVars),
     env |-> [given |-> opts.env.given, map |-> Without(opts.env.map, opts.allowedEnvVars)],
     processEnv |-> Without(opts.processEnv, opts.allowedEnvVars),
     allowedEnvVars |-> NoList, allowedVars |-> NoList]

\* the options of runs that differ only in the values of non-allowed variables
OtherValues ==
    {[opts EXCEPT !.vars = Masked(@, opts.allowedVars, v),
                  !.env.map = Masked(@, opts.allowedEnvVars, v),
                  !.processEnv = Masked(@, opts.allowedEnvVars, v)] :
        v \in {Str("other"), Str("${ENV:A}")}}
    \cup {[opts EXCEPT !.vars = Without(@, opts.allowedVars),
                       !.env.map = Without(@, opts.allowedEnvVars),
                       !.processEnv = Without(@, opts.allowedEnvVars)]}

\* C16: with an allow-list, a ${ENV:name} or ${VAR:name} whose name is not listed becomes
\* the empty string (the tree is the one of a run where those variables are unset) with
\* one blocked warning each, and runs that differ only in the values of non-allowed
\* variables return the same tree.
C16_NonAllowedNeverRead ==
    pc = "done" =>
        /\ BlockedWarnings = BlockedIn(out)
        /\ cfg = resolveRules(rules, dims, ctx, Unset).cfg
        /\ \A o \in OtherValues : resolveRules(rules, dims, ctx, o).cfg = cfg

\* a run under the ENV allow-list [A] whose tree refers to B, which is set but not listed:
\* the leaf is empty and the warning recorded
C16_Witness ==
    /\ pc = "done"
    /\ opts.allowedEnvVars = ListOf({"A"})
    /\ "k" \in DOMAIN out.o /\ out.o["k"] = Str("${ ENV: B }")
    /\ cfg.o["k"] = Str("")
    /\ [type |-> "blocked_env_var", var |-> "B"] \in BagToSet(warnings)

----------------------------------------------------------------------------
(* C17 *)

\* the expression starts with an uppercase identifier followed by ':'
HasProviderShape(e) ==
    \E c \in 1..Len(e) :
        /\ CharAt(e, c) = ":"
        /\ \A j \in 1..(c - 1) : CharAt(e, j) # ":"
        /\ c > 1
        /\ CharAt(e, 1) \in UpperChars
        /\ \A j \in 2..(c - 1) : CharAt(e, j) \in UpperChars \cup DigitChars \cup {"_"}

\* the expressions this stage substitutes itself
Recognised(e) == StartsWith(e, "ENV:") \/ StartsWith(e, "VAR:") \/ StartsWith(e, "ctx.")

SubstitutionOptions ==
    [ctx |-> ctx, vars |-> opts.vars, env |-> opts.env, processEnv |-> opts.processEnv,
     allowedEnvVars |-> opts.allowedEnvVars, allowedVars |-> opts.allowedVars]

\* What the claim lets the text s become from position i on, and the warnings it asks for:
\* secret-shaped spans stay, other unrecognised spans go with a warning
RECURSIVE Expected(_, _)
Expected(s, i) ==
    IF i > Len(s) THEN [s |-> "", w |-> EmptyBag]
    ELSE IF SpanAt(s, i)
    THEN LET q == SpanEnd(s, i)
             match == SubSeq(s, i, q)
             e == trim(SubSeq(s, i + 2, q - 1))
             rest == Expected(s, q + 1)
             here == IF Recognised(e)
                     THEN [s |-> Replacement(match, SubSeq(s, i + 2, q - 1), SubstitutionOptions).s,
                           w |-> EmptyBag]
                     ELSE IF HasProviderShape(e) THEN [s |-> match, w |-> EmptyBag]
                     ELSE [s |-> "", w |-> SetToBag({[type |-> "unknown_interpolation",
                                                     pattern |-> match]})]
         IN [s |-> here.s \o rest.s, w |-> here.w (+) rest.w]
    ELSE LET rest == Expected(s, i + 1)
         IN [s |-> CharAt(s, i) \o rest.s, w |-> rest.w]

\* the tree with every string leaf as the claim lets it become, other leaves as they are
RECURSIVE ExpectedTree(_)
ExpectedTree(v) ==
    IF v.t = "str" THEN Str(Expected(v.s, 1).s)
    ELSE IF isArray(v) THEN Arr([i \in 1..Len(v.a) |-> ExpectedTree(v.a[i])])
    ELSE IF isPlainObject(v) THEN Obj([k \in DOMAIN v.o |-> ExpectedTree(v.o[k])])
    ELSE v

UnknownExpected(tree) ==
    LET leaves == StringLeaves(tree)
        texts == BagToSet(leaves)
        Times(b, n) == [x \in DOMAIN b |-> b[x] * n]
    IN SumOver([t \in texts |-> Times(Expected(t, 1).w, leaves[t])], texts)

UnknownWarnings ==
    LET ws == {w \in BagToSet(warnings) : w.type = "unknown_interpolation"}
    IN [w \in ws |-> warnings[w]]

\* C17: substitution returns a ${...} span of secret-provider shape (uppercase identifier
\* and ':', not ENV: or VAR:) as it is and without a warning, replaces every other
\* unrecognised span by the empty string with one unknown_interpolation warning, and
\* returns the leaves that are not strings unchanged.
C17_SecretShapedSpansKept ==
    pc = "done" =>
        /\ cfg = ExpectedTree(out)
        /\ UnknownWarnings = UnknownExpected(out)

\* a run over a tree with a kept span next to an unknown one, and leaves that are no strings
C17_Witness ==
    /\ pc = "done"
    /\ "k" \in DOMAIN out.o /\ out.o["k"] = Str("${AWS:x}-${unknown}${ctx.env}")
    /\ cfg.o["k"] = Str("${AWS:x}-prod")
    /\ "n" \in DOMAIN cfg.o /\ isArray(cfg.o["n"]) /\ Len(cfg.o["n"].a) = 5
    /\ cfg.o["n"].a[2] = Bool(TRUE)
    /\ cfg.o["n"].a[5] = Str("${VAULT:p}")
    /\ warnings = SetToBag({[type |-> "unknown_interpolation", pattern |-> "${unknown}"],
                            [type |-> "unknown_interpolation", pattern |-> "${Aws:x}"]})

----------------------------------------------------------------------------
(* C18 *)

\* the text s holds, from position i on, a span that placeholder substitution replaces
RECURSIVE PlaceholderIn(_, _)
PlaceholderIn(s, i) ==
    IF i > Len(s) THEN FALSE
    ELSE IF SpanAt(s, i)
    THEN LET q == SpanEnd(s, i)
             e == trim(SubSeq(s, i + 2, q - 1))
         IN Recognised(e) \/ ~HasProviderShape(e) \/ PlaceholderIn(s, q + 1)
    ELSE PlaceholderIn(s, i + 1)

\* the text s holds, from position i on, a span that secret substitution replaces
RECURSIVE SecretIn(_, _)
SecretIn(s, i) ==
    IF i > Len(s) THEN FALSE
    ELSE IF SecretAt(s, i)
    THEN SecretMatch(s, i).provider \notin RESERVED \/ SecretIn(s, SecretMatch(s, i).end + 1)
    ELSE SecretIn(s, i + 1)

HoldsPlaceholder(tree) == \E t \in BagToSet(StringLeaves(tree)) : PlaceholderIn(t, 1)
HoldsSecret(tree) == \E t \in BagToSet(StringLeaves(tree)) : SecretIn(t, 1)

\* call c is a second run: its tree is the one an earlier call returned
SecondRun(c) ==
    /\ HasReturned(c)
    /\ \E d \in 1..(c - 1) : HasReturned(d) /\ calls[d].result = calls[c].value

\* C18 as claimed: a second run of placeholder substitution on the tree of the first run
\* returns that tree, and so does a second run of secret substitution.
C18_SubstitutionIdempotent ==
    /\ pc = "done" => applyInterpolationDeep(cfg, SubstitutionOptions).v = cfg
    /\ \A c \in 1..Len(calls) : SecondRun(c) => calls[c].result = calls[c].value

\* C18 amended: a second run returns the tree of the first run whenever that tree holds
\* no span the stage replaces: for placeholder substitution no ${...} span other than
\* secret-shaped ones, for secret substitution no ${PREFIX:key} span with a prefix other
\* than ENV and VAR.
C18_SubstitutionIdempotentOnceNoSpanIsLeft ==
    /\ pc = "done" /\ ~HoldsPlaceholder(cfg)
          => applyInterpolationDeep(cfg, SubstitutionOptions).v = cfg
    /\ \A c \in 1..Len(calls) :
          SecondRun(c) /\ ~HoldsSecret(calls[c].value) => calls[c].result = calls[c].value

\* both stages have run twice over a tree in which the first run replaced a placeholder
\* and a secret reference
C18_Witness ==
    /\ pc = "done"
    /\ DOMAIN out.o = {"k", "l"}
    /\ out.o["k"] = Str("${AWS:db}")
    /\ out.o["l"] = Arr(<<Str("${AWS:db}-${unknown}")>>)
    /\ cfg.o["l"] = Arr(<<Str("${AWS:db}-")>>)
    /\ Len(calls) = 2
    /\ calls[1].value = cfg
    /\ HasReturned(1)
    /\ calls[1].result.o["k"] = Str("pw")
    /\ SecondRun(2)

----------------------------------------------------------------------------
(* C19 *)

\* the reference matches an entry of the allow-list: the entry is its full key, or a glob
\* for its full key, or a glob for its key whatever the prefix
MatchesEntry(ref, list) ==
    \E i \in 1..Len(list) :
        \/ list[i] = ref.fullKey
        \/ globToRegex(list[i], ref.fullKey)
        \/ globToRegex(list[i], ref.key)

\* the references of call c that the allow-list does not let through
NotListed(c) ==
    IF sopts.allowedSecrets.restricted
    THEN {i \in 1..Len(calls[c].refs) :
             ~MatchesEntry(calls[c].refs[i], sopts.allowedSecrets.patterns)}
    ELSE {}

BlockedWarning(ref) == [type |-> "blocked_secret", provider |-> ref.provider, key |-> ref.key]

\* the text of a string that is one reference and nothing else
Alone(ref) == "${" \o ref.fullKey \o "}"

\* what C19 says of reference ref of call c
BlockedAndNeverLooked(c, ref) ==
    /\ CopiesIn(BlockedWarning(ref), calls[c].warnings) = 1
    /\ Lookup(calls[c].resolved, ref.fullKey) = Str("")
    /\ HasReturned(c) =>
          \A n \in 1..Len(calls[c].value.a) :
              calls[c].value.a[n] = Str(Alone(ref)) => calls[c].result.a[n] = Str("")
    /\ \A r \in 1..Len(readLog) : ~(readLog[r].call = c /\ readLog[r].key = ref.fullKey)
    /\ \A f \in 1..Len(fetchLog) :
          ~(fetchLog[f].call = c /\ fetchLog[f].provider = ref.provider
                                 /\ fetchLog[f].key = ref.key)

\* C19: with an allow-list, a reference that matches no entry gets one blocked_secret
\* warning and the empty string, in the Map of resolved values and in the returned tree;
\* the cache is not read for it and no fetch is made for it, cached value or not.
C19_BlockedSecretNeverLooked ==
    \A c \in 1..Len(calls) : \A i \in NotListed(c) :
        BlockedAndNeverLooked(c, calls[c].refs[i])

\* C19 for the references whose key holds no ':': the part of the claim the code keeps
C19_HoldsForKeysWithoutColon ==
    \A c \in 1..Len(calls) : \A i \in NotListed(c) :
        ~Includes(calls[c].refs[i].key, ":") => BlockedAndNeverLooked(c, calls[c].refs[i])

----------------------------------------------------------------------------
(* C20 *)

\* a provider is registered for the prefix, globally or by the call, in whatever case
Registered(prefix) ==
    \/ \E px \in DOMAIN globalRegistry : toUpperCase(px) = prefix
    \/ \E i \in 1..Len(sopts.providers) : toUpperCase(sopts.providers[i].prefix) = prefix

\* the cache of the call holds a value for the reference that has not expired
Cached(ref) ==
    /\ sopts.cache
    /\ \E i \in 1..Len(cache.entries) :
          cache.entries[i].key = ref.fullKey /\ cache.entries[i].expires >= now

UnknownWarning(ref) ==
    [type |-> "unknown_provider", provider |-> ref.provider, key |-> ref.key]

\* the references of call c without provider and without cached value
Unprovided(c) ==
    {i \in 1..Len(calls[c].refs) :
        ~Registered(calls[c].refs[i].provider) /\ ~Cached(calls[c].refs[i])}

\* reference ref of call c resolves to the empty string and has one unknown_provider warning
EmptyWithOneWarning(c, ref) ==
    /\ CopiesIn(UnknownWarning(ref), calls[c].warnings) = 1
    /\ Lookup(calls[c].resolved, ref.fullKey) = Str("")
    /\ HasReturned(c) =>
          \A n \in 1..Len(calls[c].value.a) :
              calls[c].value.a[n] = Str(Alone(ref)) => calls[c].result.a[n] = Str("")

\* the unknown_provider warnings of call c number as many as its references without
\* provider, cached value or block
OnePerReference(c, unprovided) ==
    LET ws == {w \in BagToSet(calls[c].warnings) : w.type = "unknown_provider"}
    IN /\ \A w \in ws : calls[c].warnings[w] = 1
       /\ ws = {UnknownWarning(calls[c].refs[i]) : i \in unprovided}

\* C20 as claimed: a reference whose prefix has no registered provider, and no cached
\* value, resolves to the empty string with exactly one unknown_provider warning.
C20_UnknownProviderWarnedOnce ==
    \A c \in 1..Len(calls) :
        \A i \in Unprovided(c) : EmptyWithOneWarning(c, calls[c].refs[i])

\* C20 amended: a reference that no allow-list blocks, whose prefix has no registered
\* provider, and that has no cached value, resolves to the empty string, and a call
\* records exactly one unknown_provider warning for each such reference, however often
\* its span occurs in the tree.
C20_UnblockedUnknownProviderWarnedOnce ==
    \A c \in 1..Len(calls) :
        LET passed == {i \in Unprovided(c) :
                          isAllowed(calls[c].refs[i].fullKey, sopts.allowedSecrets)}
        IN /\ \A i \in passed : EmptyWithOneWarning(c, calls[c].refs[i])
           /\ OnePerReference(c, passed)

\* a call has returned whose tree holds the span of XX:key three times, with and without
\* padding, and the span of YY:key, whose cached value has expired
C20_Witness ==
    /\ Len(calls) >= 1
    /\ HasReturned(1)
    /\ calls[1].value = Arr(<<Str("${XX: key }-${XX:key}"), Str("${XX:key}${YY:key}")>>)
    /\ calls[1].result = Arr(<<Str("-"), Str("")>>)
    /\ sopts.cache /\ sopts.allowedSecrets.restricted
    /\ calls[1].warnings =
          SetToBag({[type |-> "unknown_provider", provider |-> "XX", key |-> "key"],
                    [type |-> "unknown_provider", provider |-> "YY", key |-> "key"]})

----------------------------------------------------------------------------
(* C21 *)

\* call c asked a provider for reference ref, and the fetch has settled
Fetched(c, ref) ==
    \E f \in 1..Len(fetchLog) :
        fetchLog[f].call = c /\ fetchLog[f].provider = ref.provider /\ fetchLog[f].key = ref.key
Settled(c, ref) ==
    /\ Fetched(c, ref)
    /\ \A j \in 1..Len(calls[c].pending) : calls[c].pending[j].fullKey # ref.fullKey

\* how the fetch call c made for ref ends
Outcome(c, ref) ==
    LET f == CHOOSE n \in 1..Len(fetchLog) :
                 fetchLog[n].call = c /\ fetchLog[n].provider = ref.provider
                                      /\ fetchLog[n].key = ref.key
    IN Vault(fetchLog[f].id, ref.key)

WarningsFor(c, ref) ==
    {w \in BagToSet(calls[c].warnings) : w.provider = ref.provider /\ w.key = ref.key}

NotFoundWarning(ref) ==
    [type |-> "secret_not_found", provider |-> ref.provider, key |-> ref.key]

\* C21: a fetch that fails as not found leaves the reference with the empty string; under
\* the policy 'empty' no warning is recorded for it, under 'warn' exactly one
\* secret_not_found warning.
C21_EmptyIsSilent ==
    \A c \in 1..Len(calls) : \A i \in 1..Len(calls[c].refs) :
        LET ref == calls[c].refs[i]
        IN Settled(c, ref) /\ Outcome(c, ref).kind = "notfound" =>
              /\ sopts.onNotFound = "empty" =>
                    /\ WarningsFor(c, ref) = {}
                    /\ Lookup(calls[c].resolved, ref.fullKey) = Str("")
              /\ sopts.onNotFound = "warn" =>
                    /\ WarningsFor(c, ref) = {NotFoundWarning(ref)}
                    /\ calls[c].warnings[NotFoundWarning(ref)] = 1
                    /\ Lookup(calls[c].resolved, ref.fullKey) = Str("")

----------------------------------------------------------------------------
(* C22 *)

\* the references of call c whose fetch has failed
Failed(c) ==
    {i \in 1..Len(calls[c].refs) :
        Settled(c, calls[c].refs[i]) /\ Outcome(c, calls[c].refs[i]).kind # "value"}

\* C22: under the policy 'error' a call with a failed fetch is rejected and returns no
\* tree; under 'warn' and 'empty' no call is rejected, and a call that returns gives the
\* empty string for every reference whose fetch failed.
C22_FatalOnlyUnderError ==
    \A c \in 1..Len(calls) :
        /\ sopts.onNotFound = "error" /\ Failed(c) # {}
              => calls[c].status = "rejected" /\ calls[c].result = Undef
        /\ calls[c].status = "rejected" => sopts.onNotFound = "error" /\ Failed(c) # {}
        /\ sopts.onNotFound # "error" /\ HasReturned(c) =>
              \A i \in Failed(c) :
                  /\ Lookup(calls[c].resolved, calls[c].refs[i].fullKey) = Str("")
                  /\ \A n \in 1..Len(calls[c].value.a) :
                        calls[c].value.a[n] = Str(Alone(calls[c].refs[i]))
                            => calls[c].result.a[n] = Str("")

\* under 'error' a call is rejected by a failed fetch after another of its fetches gave
\* its value
C22_Witness ==
    /\ sopts.onNotFound = "error"
    /\ Len(calls) >= 1
    /\ calls[1].value = Arr(<<Str("${AWS:db}"), Str("${AWS:down}")>>)
    /\ calls[1].status = "rejected"
    /\ calls[1].pending = <<>>
    /\ calls[1].result = Undef

----------------------------------------------------------------------------
(* C24 *)

EntryKeys(entries) == {entries[i].key : i \in 1..Len(entries)}

\* the n-th call found the cache at capacity
FullAt(n) == Len(opLog[n].before) >= cache.maxSize

\* the m-th call put key k into the cache: a set of a key that was absent, or that the
\* same set took out first, the cache being at capacity and k its first key
Inserts(m, k) ==
    /\ opLog[m].op = "set"
    /\ opLog[m].key = k
    /\ \/ k \notin EntryKeys(opLog[m].before)
       \/ FullAt(m) /\ opLog[m].before # <<>> /\ Head(opLog[m].before).key = k

\* the m-th call read the value of key k
Reads(m, k) == opLog[m].op = "get" /\ opLog[m].key = k /\ opLog[m].result # Undef

Latest(S) == CHOOSE m \in S : \A m2 \in S : m2 <= m

\* the call before the n-th that last inserted k, and the one that last inserted or read it
InsertedAt(k, n) == Latest({m \in 1..(n - 1) : Inserts(m, k)})
UsedAt(k, n) == Latest({m \in 1..(n - 1) : Inserts(m, k) \/ Reads(m, k)})

\* the n-th call is a set of a new key into a full cache
NewAtFull(n) ==
    /\ opLog[n].op = "set"
    /\ opLog[n].key \notin EntryKeys(opLog[n].before)
    /\ opLog[n].before # <<>>
    /\ FullAt(n)

EvictedBy(n) == EntryKeys(opLog[n].before) \ EntryKeys(opLog[n].after)

\* three sets in a row of three keys into an empty cache of size 2 leave the last two
ThreeInserts ==
    \A n \in 3..Len(opLog) :
        /\ cache.maxSize = 2
        /\ opLog[n - 2].before = <<>>
        /\ \A m \in {n - 2, n - 1, n} : opLog[m].op = "set"
        /\ Cardinality({opLog[m].key : m \in {n - 2, n - 1, n}}) = 3
        => /\ EvictedBy(n) = {opLog[n - 2].key}
           /\ EntryKeys(opLog[n].after) = {opLog[n - 1].key, opLog[n].key}

\* C24 as stated: a set of a new key into a full cache evicts the key inserted longest
\* ago, whatever was read in between; three inserts into a cache of size 2 evict the first.
C24_EvictsOldestInserted ==
    /\ \A n \in 1..Len(opLog) :
          NewAtFull(n) =>
              EvictedBy(n) = {k \in EntryKeys(opLog[n].before) :
                                 \A k2 \in EntryKeys(opLog[n].before) :
                                     InsertedAt(k, n) <= InsertedAt(k2, n)}
    /\ ThreeInserts

\* C24: a set of a new key into a full cache evicts the key that was inserted or read
\* longest ago; three inserts into a cache of size 2 evict the first.
C24_EvictsLeastRecentlyUsed ==
    /\ \A n \in 1..Len(opLog) :
          NewAtFull(n) =>
              EvictedBy(n) = {k \in EntryKeys(opLog[n].before) :
                                 \A k2 \in EntryKeys(opLog[n].before) :
                                     UsedAt(k, n) <= UsedAt(k2, n)}
    /\ ThreeInserts

\* two keys are set, the first is read, a third is set: the second key is gone
C24_Witness ==
    /\ cache.maxSize = 2
    /\ Len(opLog) = 4
    /\ opLog[1].op = "set" /\ opLog[1].key = "AWS:db" /\ opLog[1].before = <<>>
    /\ opLog[2].op = "set" /\ opLog[2].key = "AWS:none"
    /\ opLog[3].op = "get" /\ opLog[3].key = "AWS:db" /\ opLog[3].result = CacheValue(1)
    /\ opLog[4].op = "set" /\ opLog[4].key = "VAULT:db"
    /\ EntryKeys(cache.entries) = {"AWS:db", "VAULT:db"}

----------------------------------------------------------------------------
(* C26 *)

\* the calls before the n-th that set key k
SetsBefore(k, n) == {m \in 1..(n - 1) : opLog[m].op = "set" /\ opLog[m].key = k}

\* the clock has gone past the lifetime given in the m-th call when the n-th is made
Elapsed(m, n) == opLog[n].at - opLog[m].at > opLog[m].ttl

\* key k is in the cache after every call from the m-th up to the one before the n-th:
\* no set has evicted it and no invalidate has deleted it
KeptSince(k, m, n) == \A j \in m..(n - 1) : k \in EntryKeys(opLog[j].after)

\* C26: get never returns an expired value. Once the clock is past the lifetime of the last
\* set of a key, get returns undefined and the entry is gone; a value returned is the one last
\* set and has not expired; until it expires the value last set is returned unless the key
\* was evicted or invalidated.
C26_NeverExpiredValue ==
    \A n \in 1..Len(opLog) :
        opLog[n].op = "get" =>
            LET k == opLog[n].key
                S == SetsBefore(k, n)
            IN /\ S = {} => opLog[n].result = Undef
               /\ S # {} =>
                     LET m == Latest(S)
                     IN /\ Elapsed(m, n) =>
                              opLog[n].result = Undef /\ k \notin EntryKeys(opLog[n].after)
                        /\ opLog[n].result # Undef =>
                              opLog[n].result = opLog[m].value /\ ~Elapsed(m, n)
                        /\ ~Elapsed(m, n) /\ KeptSince(k, m, n) =>
                              opLog[n].result = opLog[m].value

\* the clock has reached the end of the lifetime given in the m-th call
ElapsedJust(m, n) == opLog[n].at - opLog[m].at >= opLog[m].ttl

\* C26 as stated: the entry is absent from the moment its lifetime has elapsed, and is
\* returned before that.
C26_AbsentOnceElapsed ==
    \A n \in 1..Len(opLog) :
        opLog[n].op = "get" =>
            LET k == opLog[n].key
                S == SetsBefore(k, n)
            IN /\ S = {} => opLog[n].result = Undef
               /\ S # {} =>
                     LET m == Latest(S)
                     IN /\ ElapsedJust(m, n) =>
                              opLog[n].result = Undef /\ k \notin EntryKeys(opLog[n].after)
                        /\ opLog[n].result # Undef =>
                              opLog[n].result = opLog[m].value /\ ~ElapsedJust(m, n)
                        /\ ~ElapsedJust(m, n) /\ KeptSince(k, m, n) =>
                              opLog[n].result = opLog[m].value

\* a key is set, its lifetime elapses, and the get that follows drops the entry
C26_Witness ==
    /\ Len(opLog) = 2
    /\ opLog[1].op = "set" /\ opLog[1].key = "AWS:db" /\ opLog[1].at = 0
    /\ opLog[2].op = "get" /\ opLog[2].key = "AWS:db" /\ opLog[2].at = 2
    /\ EntryKeys(opLog[2].before) = {"AWS:db"}
    /\ opLog[2].result = Undef
    /\ cache.entries = <<>>

----------------------------------------------------------------------------
(* C23 *)

\* the value the cache holds for the reference
CachedValue(ref) ==
    cache.entries[CHOOSE i \in 1..Len(cache.entries) : cache.entries[i].key = ref.fullKey].value

\* a step that is a call: every reference the cache holds an unexpired value for gets
\* that value, and no provider is asked for it
CallUsesCache ==
    Len(calls') = Len(calls) + 1 =>
        LET c == Len(calls')
        IN \A i \in 1..Len(calls'[c].refs) :
              LET ref == calls'[c].refs[i]
              IN Cached(ref) /\ ~sopts.allowedSecrets.restricted =>
                    /\ Lookup(calls'[c].resolved, ref.fullKey) = CachedValue(ref)
                    /\ \A f \in 1..Len(fetchLog') :
                          ~(fetchLog'[f].call = c /\ fetchLog'[f].provider = ref.provider
                                                  /\ fetchLog'[f].key = ref.key)

SameReference(f1, f2) ==
    fetchLog[f1].provider = fetchLog[f2].provider /\ fetchLog[f1].key = fetchLog[f2].key

\* no call asks a provider twice for one reference
OncePerCall ==
    \A f1, f2 \in 1..Len(fetchLog) :
        f1 < f2 /\ fetchLog[f1].call = fetchLog[f2].call => ~SameReference(f1, f2)

\* the two fetches are made within the lifetime of a cache entry
WithinTtl(f1, f2) == fetchLog[f2].at - fetchLog[f1].at <= sopts.cacheTtl

\* the cache has had room for the value of every fetch made so far
Room == Len(fetchLog) < cache.maxSize

\* C23 as stated: a cached reference is not fetched; calls within the lifetime of an entry
\* fetch no reference twice; no call fetches a reference twice.
C23_FetchedAtMostOnce ==
    /\ [][CallUsesCache]_vars
    /\ [](OncePerCall /\ \A f1, f2 \in 1..Len(fetchLog) :
                             f1 < f2 /\ WithinTtl(f1, f2) => ~SameReference(f1, f2))

\* C23: a cached reference is not fetched; calls within the lifetime of an entry do not
\* fetch again a reference whose fetch gave a value, the cache having room for it; no
\* call fetches a reference twice.
C23_FetchedValueAtMostOnce ==
    /\ [][CallUsesCache]_vars
    /\ [](OncePerCall /\ \A f1, f2 \in 1..Len(fetchLog) :
                             /\ f1 < f2
                             /\ WithinTtl(f1, f2)
                             /\ Vault(fetchLog[f1].id, fetchLog[f1].key).kind = "value"
                             /\ Room
                             => ~SameReference(f1, f2))

\* a second call finds the value the first one fetched for a reference that occurs twice,
\* and fetches again the reference whose fetch had failed
C23_Witness ==
    /\ Len(calls) = 2
    /\ calls[1].value = Arr(<<Str("${AWS:none}-${AWS:db}"), Str("${AWS:gone}")>>)
    /\ calls[2].value = calls[1].value
    /\ HasReturned(2)
    /\ calls[2].result = Arr(<<Str("-pw"), Str("")>>)
    /\ Len(fetchLog) = 4
    /\ fetchLog[4].call = 2 /\ fetchLog[4].key = "gone"
    /\ \A f \in 1..3 : fetchLog[f].call = 1

----------------------------------------------------------------------------
(* C25 *)

\* C25: the cache never holds more entries than maxSize, whatever set, get and invalidate
\* calls are made on it, by a caller and by calls of applySecretsDeep that overlap.
C25_SizeWithinMaxSize == Len(cache.entries) <= cache.maxSize

----------------------------------------------------------------------------
(* C27 *)

\* what a provider's answer reads as: its value, the empty string for null and undefined
AsString(v) == IF v \in {Null, Undef} THEN Str("") ELSE v

\* the f-th fetch has settled
HasSettled(f) ==
    \A j \in 1..Len(calls[fetchLog[f].call].pending) :
        calls[fetchLog[f].call].pending[j].fullKey
            # fetchLog[f].provider \o ":" \o fetchLog[f].key

\* C27: every cache entry holds the value a provider has returned for the entry's own
\* PREFIX:key, in a fetch that has settled; a reference whose fetch failed has no entry.
\* This under every order in which the fetches of calls that overlap settle, also after a
\* failed fetch has rejected its call under 'error'.
C27_EntriesHoldOwnValue ==
    \A i \in 1..Len(cache.entries) :
        \E f \in 1..Len(fetchLog) :
            /\ cache.entries[i].key = fetchLog[f].provider \o ":" \o fetchLog[f].key
            /\ HasSettled(f)
            /\ Vault(fetchLog[f].id, fetchLog[f].key).kind = "value"
            /\ cache.entries[i].value = AsString(Vault(fetchLog[f].id, fetchLog[f].key).value)

\* under 'error' a failed fetch has rejected the call, and the fetch of its sibling,
\* settling later, has left its value in the cache
C27_Witness ==
    /\ sopts.onNotFound = "error"
    /\ Len(calls) = 1
    /\ calls[1].value = Arr(<<Str("${AWS:gone}-${AWS:db}"), Str("${AWS:down}")>>)
    /\ calls[1].status = "rejected"
    /\ calls[1].pending = <<>>
    /\ Len(cache.entries) = 1
    /\ cache.entries[1].key = "AWS:db"
    /\ cache.entries[1].value = Str("pw")

----------------------------------------------------------------------------
(* C28 *)

\* a step that asks a provider is the step of a call up to its await: every fetch it adds
\* is one of the new call, and all of them are outstanding when the call awaits
FetchesWithCall ==
    fetchLog' # fetchLog =>
        /\ Len(calls') = Len(calls) + 1
        /\ calls'[Len(calls')].status = "await"
        /\ Len(fetchLog') = Len(fetchLog) + Len(calls'[Len(calls')].pending)
        /\ \A f \in (Len(fetchLog) + 1)..Len(fetchLog') : fetchLog'[f].call = Len(calls')

\* every reference of a call that awaits has its value, or its fetch is outstanding
AllIssued ==
    \A c \in 1..Len(calls) :
        calls[c].status = "await" =>
            \A i \in 1..Len(calls[c].refs) :
                \/ calls[c].refs[i].fullKey \in DOMAIN calls[c].resolved
                \/ \E j \in 1..Len(calls[c].pending) :
                      calls[c].pending[j].fullKey = calls[c].refs[i].fullKey

\* the string s from position i on with every reference of call c replaced by the value
\* the call resolved it to
RECURSIVE RewrittenFrom(_, _, _)
RewrittenFrom(s, i, c) ==
    IF i > Len(s) THEN ""
    ELSE IF SecretAt(s, i)
    THEN LET m == SecretMatch(s, i)
         IN calls[c].resolved[m.provider \o ":" \o trim(m.key)].s
                \o RewrittenFrom(s, m.end + 1, c)
    ELSE CharAt(s, i) \o RewrittenFrom(s, i + 1, c)

\* the tree call c returned is its input with every reference replaced in every leaf, no
\* fetch is outstanding, and the blocked, unknown and failed references are empty
OutputAfterAll ==
    \A c \in 1..Len(calls) :
        HasReturned(c) /\ calls[c].refs # <<>> =>
            /\ calls[c].pending = <<>>
            /\ \A i \in 1..Len(calls[c].refs) :
                  /\ calls[c].refs[i].fullKey \in DOMAIN calls[c].resolved
                  /\ calls[c].resolved[calls[c].refs[i].fullKey].t = "str"
                  /\ Fetched(c, calls[c].refs[i]) => Settled(c, calls[c].refs[i])
                  /\ i \in NotListed(c) \cup Unprovided(c) \cup Failed(c) =>
                        calls[c].resolved[calls[c].refs[i].fullKey] = Str("")
            /\ calls[c].result =
                  Arr([n \in 1..Len(calls[c].value.a) |->
                          Str(RewrittenFrom(calls[c].value.a[n].s, 1, c))])

\* C28: the fetches of a call are all issued before it awaits and none later; it returns
\* only when every fetch has settled, with a value for every reference, the empty string
\* for the blocked, unknown and failed ones, and every span replaced by that value.
C28_AllFetchedThenRewritten ==
    /\ [][FetchesWithCall]_vars
    /\ [](AllIssued /\ OutputAfterAll)

\* a call with a reference whose fetch gives a value and one whose fetch fails has returned
C28_Witness ==
    /\ ~sopts.allowedSecrets.restricted
    /\ Len(calls) >= 1
    /\ calls[1].value = Arr(<<Str("${AWS:db}"), Str("${MOCK:a}")>>)
    /\ Len(calls[1].refs) = 2
    /\ Fetched(1, calls[1].refs[1]) /\ Fetched(1, calls[1].refs[2])
    /\ HasReturned(1)
    /\ calls[1].result = Arr(<<Str("pw"), Str("")>>)

----------------------------------------------------------------------------
(* C29 *)

\* the lines from the a-th to the b-th joined by newlines
RECURSIVE JoinLines(_, _, _)
JoinLines(lines, a, b) ==
    IF a > b THEN ""
    ELSE IF a = b THEN lines[a]
    ELSE lines[a] \o "\n" \o JoinLines(lines, a + 1, b)

\* the first line after the a-th that consists of the delimiter
DelimiterAfter(a) ==
    CHOOSE e \in (a + 1)..Len(fileText) :
        /\ trim(fileText[e]) = "EOF"
        /\ \A j \in (a + 1)..(e - 1) : trim(fileText[j]) # "EOF"

\* C29: the value of a heredoc rule is the lines of the text between the start line and
\* the delimiter line, unchanged and joined by newlines, whatever they hold.
C29_HeredocVerbatim ==
    \A k \in 1..Len(parser.rules) :
        LET r == parser.rules[k]
        IN fileText[r.line] = "k = <<EOF" =>
              r.value = Str(JoinLines(fileText, r.line + 1, DelimiterAfter(r.line) - 1))

----------------------------------------------------------------------------
(* C30 *)

\* what is left of a line from position j on when it is entered at nesting depth d, with
\* the depth at its end
RECURSIVE Uncommented(_, _, _)
Uncommented(line, j, d) ==
    IF j > Len(line) THEN [kept |-> "", depth |-> d]
    ELSE IF j + 1 <= Len(line) /\ SubSeq(line, j, j + 1) = "/*"
    THEN Uncommented(line, j + 2, d + 1)
    ELSE IF j + 1 <= Len(line) /\ SubSeq(line, j, j + 1) = "*/" /\ d > 0
    THEN Uncommented(line, j + 2, d - 1)
    ELSE LET rest == Uncommented(line, j + 1, d)
         IN IF d = 0 THEN [rest EXCEPT !.kept = CharAt(line, j) \o @] ELSE rest

\* the lines from line i on without what stands in comments, the depth going from one
\* line to the next
RECURSIVE UncommentedFrom(_, _, _)
UncommentedFrom(lines, i, d) ==
    IF i > Len(lines) THEN <<>>
    ELSE LET u == Uncommented(lines[i], 1, d)
         IN <<u.kept>> \o UncommentedFrom(lines, i + 1, u.depth)

\* the lines on which a statement starts, from line i on; open says one is under way
RECURSIVE StartsFrom(_, _, _)
StartsFrom(lines, i, open) ==
    IF i > Len(lines) THEN <<>>
    ELSE LET t == trim(lines[i])
         IN IF t = "" \/ StartsWith(t, "#") \/ StartsWith(t, "//")
            THEN StartsFrom(lines, i + 1, open)
            ELSE (IF open THEN <<>> ELSE <<i>>) \o StartsFrom(lines, i + 1, ~EndsWith(t, ";"))

\* C30: what the statement scanner gets is the text without its comments, a comment
\* ending when every opened one is closed; the lines are as many as before and map to
\* themselves; every rule, and the parse error, has the line on which its statement starts.
C30_CommentsNestAndLinesStay ==
    parser.pc \in {"loop", "done", "error"} =>
        LET starts == StartsFrom(parser.lines, 1, FALSE)
        IN /\ parser.lines = UncommentedFrom(fileText, 1, 0)
           /\ Len(parser.lines) = Len(fileText)
           /\ parser.lineMap = [i \in 1..Len(fileText) |-> i]
           /\ Len(parser.rules) <= Len(starts)
           /\ \A k \in 1..Len(parser.rules) : parser.rules[k].line = starts[k]
           /\ parser.error # Undef =>
                 /\ Len(parser.rules) < Len(starts)
                 /\ parser.error.line = starts[Len(parser.rules) + 1]

\* a text with a comment over two lines and a nested one is parsed into its two rules
C30_Witness ==
    /\ fileText = <<"/* c", "c */ x = 1;", "/* c /* c */ c */ y = 2;">>
    /\ parser.pc = "done"
    /\ Len(parser.rules) = 2
    /\ parser.rules[1].line = 2 /\ parser.rules[1].keyRaw = "x"
    /\ parser.rules[2].line = 3 /\ parser.rules[2].value = Num(2)

----------------------------------------------------------------------------
(* C31 *)

\* the text has ended with a statement or a heredoc open
EndsOpen == parser.pc = "loop" /\ parser.i > Len(parser.lines)
                               /\ (parser.inHeredoc \/ parser.buf # "")

\* the line on which what is open started: the heredoc's start line has the heredoc start
\* on it, the statement's start line is the first line of the buffer
OpenFrom ==
    IF parser.inHeredoc THEN parser.heredocStartLine ELSE parser.bufStartOriginalLine

StartLineKnown ==
    parser.pc = "loop" =>
        /\ parser.inHeredoc =>
              /\ parser.heredocStartLine \in 1..Len(fileText)
              /\ HeredocStart(trim(parser.lines[parser.heredocStartLine])).matched
        /\ parser.buf # "" =>
              /\ parser.bufStartOriginalLine \in 1..Len(fileText)
              /\ trim(parser.lines[parser.bufStartOriginalLine]) # ""
              /\ StartsWith(parser.buf, parser.lines[parser.bufStartOriginalLine])
              /\ \A k \in 1..Len(parser.rules) :
                    parser.rules[k].line # parser.bufStartOriginalLine

\* C31: when the text ends with a statement without its ';' or with a heredoc open,
\* parseColony throws a parse error with the line on which that statement or heredoc
\* started and returns nothing; what was open has become no rule.
C31_UnterminatedIsFatal ==
    /\ [](StartLineKnown)
    /\ [](parser.pc = "done" => ~parser.inHeredoc /\ parser.buf = "")
    /\ [][EndsOpen =>
            /\ parser'.pc = "error"
            /\ parser'.error.message \in {"Unterminated heredoc", "Unterminated statement"}
            /\ parser'.error.message = "Unterminated heredoc" <=> parser.inHeredoc
            /\ parser'.error.line = OpenFrom
            /\ parser'.rules = parser.rules]_vars

\* a statement without ';' after a closed heredoc ends the text: the call throws with the
\* statement's line and the heredoc's rule is all there is
C31_Witness ==
    /\ fileText = <<"k = <<EOF", "EOF", " x  ">>
    /\ parser.pc = "error"
    /\ parser.error = [message |-> "Unterminated statement", line |-> 3]
    /\ Len(parser.rules) = 1

----------------------------------------------------------------------------
(* C32 *)

\* the leaf paths of a tree as lists of keys: the paths to what is no mapping
RECURSIVE Leaves(_)
Leaves(tree) ==
    UNION {IF isPlainObject(tree.o[k])
           THEN {<<k>> \o rest : rest \in Leaves(tree.o[k])}
           ELSE {<<k>>} : k \in DOMAIN tree.o}

Elements(list) == {list[i] : i \in 1..Len(list)}
Sorted(list) == \A i \in 1..(Len(list) - 1) : LessStr(list[i], list[i + 1])
ChangedKeys(d) == [i \in 1..Len(d.changed) |-> d.changed[i].key]

\* C32: cfg.diff(other) has as added the leaf paths of other that cfg lacks, as removed
\* those of cfg that other lacks, as changed those of both whose values differ; the
\* three lists are disjoint and sorted, cfg.diff(cfg) has them empty, and the added of
\* cfg.diff(other) is the removed of other.diff(cfg).
C32_DiffIsLeafwise ==
    /\ Len(diffed) >= 1 =>
          LET d == diffed[1]
              both == Leaves(cfg) \cap Leaves(other)
          IN /\ Elements(d.added) = {JoinDots(q) : q \in Leaves(other) \ Leaves(cfg)}
             /\ Elements(d.removed) = {JoinDots(q) : q \in Leaves(cfg) \ Leaves(other)}
             /\ Elements(ChangedKeys(d))
                   = {JoinDots(q) : q \in {x \in both : ValueAt(cfg, x) # ValueAt(other, x)}}
             /\ \A i \in 1..Len(d.changed) :
                   \E q \in both : /\ JoinDots(q) = d.changed[i].key
                                    /\ d.changed[i].from = ValueAt(cfg, q)
                                    /\ d.changed[i].to = ValueAt(other, q)
             /\ Elements(d.added) \cap Elements(d.removed) = {}
             /\ Elements(d.added) \cap Elements(ChangedKeys(d)) = {}
             /\ Elements(d.removed) \cap Elements(ChangedKeys(d)) = {}
             /\ Sorted(d.added) /\ Sorted(d.removed) /\ Sorted(ChangedKeys(d))
             /\ cfg = other => d.added = <<>> /\ d.removed = <<>> /\ d.changed = <<>>
    /\ Len(diffed) = 2 => diffed[1].added = diffed[2].removed

----------------------------------------------------------------------------
(* C33 *)

\* the registry calls that bear on the prefix px, whatever its case: the registrations
\* under it that were accepted, the unregistrations of it, every clear
BearsOn(e, px) ==
    \/ e.op = "clear"
    \/ e.op = "unregister" /\ toUpperCase(e.prefix) = toUpperCase(px)
    \/ e.op = "register" /\ e.result = "ok" /\ toUpperCase(e.prefix) = toUpperCase(px)

\* the provider most recently registered under px and not unregistered or cleared since,
\* "" when there is none
MostRecent(px) ==
    LET on == {i \in 1..Len(regLog) : BearsOn(regLog[i], px)}
        last == CHOOSE i \in on : \A j \in on : j <= i
    IN IF on = {} THEN ""
       ELSE IF regLog[last].op = "register" THEN regLog[last].id ELSE ""

\* the provider the call's own list names for px, "" when there is none
OwnProvider(px) ==
    LET on == {i \in 1..Len(sopts.providers) :
                  toUpperCase(sopts.providers[i].prefix) = toUpperCase(px)}
    IN IF on = {} THEN "" ELSE sopts.providers[CHOOSE i \in on : \A j \in on : j <= i].id

ProviderFor(px) == IF OwnProvider(px) # "" THEN OwnProvider(px) ELSE MostRecent(px)

RefPrefixes == {"AWS", "VAULT"}

\* C33: the global registry holds, for every prefix in whatever case, the provider most
\* recently registered under it and not unregistered or cleared since; a call fetches
\* each reference from the provider of its own list for that prefix, else from that
\* global one, and warns of an unknown provider when there is neither; a call leaves the
\* global registry as it is.
C33_MostRecentProviderServes ==
    /\ [](\A px \in RefPrefixes :
            /\ px \in DOMAIN globalRegistry <=> MostRecent(px) # ""
            /\ px \in DOMAIN globalRegistry => globalRegistry[px] = MostRecent(px))
    /\ [](DOMAIN globalRegistry \subseteq RefPrefixes)
    /\ [][calls' # calls => globalRegistry' = globalRegistry]_vars
    /\ [][Len(calls') = Len(calls) + 1 =>
            LET c == Len(calls')
                new == SubSeq(fetchLog', Len(fetchLog) + 1, Len(fetchLog'))
            IN \A r \in 1..Len(calls'[c].refs) :
                  LET ref == calls'[c].refs[r]
                      from == {k \in 1..Len(new) : new[k].provider = ref.provider
                                                    /\ new[k].key = ref.key}
                  IN IF ProviderFor(ref.provider) = ""
                     THEN /\ from = {}
                          /\ BagIn([type |-> "unknown_provider", provider |-> ref.provider,
                                    key |-> ref.key], calls'[c].warnings)
                     ELSE /\ Cardinality(from) = 1
                          /\ \A k \in from : new[k].id = ProviderFor(ref.provider)]_vars

\* AWS was registered as "aws" and then again as "AWS" with another provider; a call with
\* no provider of its own has fetched from the second and returned its value
C33_Witness ==
    /\ Len(regLog) = 2
    /\ regLog[1].op = "register" /\ regLog[1].prefix = "aws" /\ regLog[1].id = "aws"
    /\ regLog[2].op = "register" /\ regLog[2].prefix = "AWS" /\ regLog[2].id = "vault"
    /\ sopts.providers = <<>>
    /\ Len(calls) = 1
    /\ HasReturned(1)
    /\ calls[1].result = Arr(<<Str("vpw")>>)
    /\ \E k \in 1..Len(fetchLog) : fetchLog[k].id = "vault" /\ fetchLog[k].provider = "AWS"

----------------------------------------------------------------------------
(* C34 *)

\* the position of the first ';' of a line, 0 when it has none
FirstSemi(line) ==
    IF Includes(line, ";") THEN CHOOSE i \in 1..Len(line) :
                                    /\ CharAt(line, i) = ";"
                                    /\ \A j \in 1..(i - 1) : CharAt(line, j) # ";"
    ELSE 0

\* a line made of a statement, its ';' and a line comment
HasTrailing(line) ==
    LET after == trim(SubSeq(line, FirstSemi(line) + 1, Len(line)))
    IN FirstSemi(line) > 1 /\ (StartsWith(after, "#") \/ StartsWith(after, "//"))

\* the line without that comment
Statement(line) == IF HasTrailing(line) THEN SubSeq(line, 1, FirstSemi(line)) ELSE line

\* what parseColony makes of the lines from the state p on
RECURSIVE Parsed(_)
Parsed(p) ==
    IF p.pc # "loop" THEN p
    ELSE IF p.i <= Len(p.lines) THEN Parsed(LoopTurn(p))
    ELSE IF p.inHeredoc THEN Thrown(p, "Unterminated heredoc", p.heredocStartLine)
    ELSE IF trim(p.buf) # "" THEN Thrown(p, "Unterminated statement", p.bufStartOriginalLine)
    ELSE [p EXCEPT !.pc = "done"]

\* C34: a text whose statements carry a line comment after their ';' is parsed into the
\* rules of the same text without those comments: each such statement gives its own
\* rule, and so does the statement on the lines after it.
C34_TrailingCommentIgnored ==
    parser.pc \in {"done", "error"} =>
        LET plain == [i \in 1..Len(fileText) |-> Statement(fileText[i])]
            cleaned == stripBlockComments(plain)
            expected == Parsed(Locals("loop", cleaned.lines, cleaned.lineMap))
        IN /\ parser.pc = expected.pc
           /\ parser.rules = expected.rules
           /\ parser.error = expected.error

----------------------------------------------------------------------------
(* C35 *)

\* the files the @include lines of u resolve to
IncludedBy(u) == Elements(disk[u].includes)

\* the files that S leads to by includes, S among them
RECURSIVE ReachFrom(_)
ReachFrom(S) ==
    LET T == S \cup UNION {IncludedBy(f) : f \in S}
    IN IF T = S THEN S ELSE ReachFrom(T)

\* the include of v leads back to u: v includes u, directly or by way of other files, or is u
LeadsBack(v, u) == u \in ReachFrom({v})

Place(list, x) == CHOOSE i \in 1..Len(list) : list[i] = x

\* expandIncludes has returned its list
Expanded == loader.pc \in {"expanded", "resolving"}

\* the list holds every file the entry leads to, each once
OnceEach ==
    /\ Elements(loader.out) = ReachFrom({loader.opts.entry})
    /\ \A i, j \in 1..Len(loader.out) : loader.out[i] = loader.out[j] => i = j

\* the rules are those of the files of the list, file after file
Concatenated ==
    /\ \A i \in 1..Len(rules) : rules[i].filePath \in Elements(loader.out)
    /\ \A i, j \in 1..Len(rules) :
          i <= j => Place(loader.out, rules[i].filePath) <= Place(loader.out, rules[j].filePath)
    /\ \A f \in Elements(loader.out) :
          Cardinality({i \in 1..Len(rules) : rules[i].filePath = f}) = Len(disk[f].rules)

\* v, which u includes, comes before u in the list, its rules before those of u, and what
\* v writes at the key they share is replaced by what u, or a later file, writes there
IncludedFirst(u, v) ==
    /\ Place(loader.out, v) < Place(loader.out, u)
    /\ loader.pc = "resolving" =>
          \A i, j \in 1..Len(rules) :
             rules[i].filePath = v /\ rules[j].filePath = u => i < j
    /\ pc = "done" => ValueAt(cfg, <<v>>) # Str(v)

\* the calls under way are a chain of includes from the entry on, each one deeper
IsChain(stack) ==
    /\ stack[1].file = loader.opts.entry
    /\ \A i \in 1..Len(stack) : stack[i].depth = i - 1
    /\ \A i \in 1..(Len(stack) - 1) : stack[i + 1].file \in IncludedBy(stack[i].file)

\* the walk has nested an include deeper than maxIncludeDepth
TooDeep ==
    /\ loader.pc \in {"dfs", "error"}
    /\ loader.stack[Len(loader.stack)].depth > loader.opts.maxIncludeDepth

\* what holds of the walk whatever the order of an including and an included file
WalkIsSound ==
    /\ loader.pc \in {"dfs", "error"} => IsChain(loader.stack)
    /\ loader.pc = "error" <=> (TooDeep /\ loader.error # Undef)
    /\ Expanded => OnceEach
    /\ loader.pc = "resolving" => Concatenated
    /\ (loader.pc = "resolving" /\ pc = "done") =>
          ValueAt(cfg, <<"all">>) = Arr([i \in 1..Len(loader.out) |-> Str(loader.out[i])])
    /\ loader.pc = "error" => pc = "idle"

\* C35 as stated: the walk ends on every include graph; it returns each file the entry
\* leads to once, every file a unit includes before that unit, so that a rule of the
\* including file comes after and beats a rule of the included file; nested deeper than
\* maxIncludeDepth, it aborts the load instead.
C35_IncludedAlwaysFirst ==
    /\ <>(Expanded \/ loader.pc = "error")
    /\ TooDeep ~> (loader.pc = "error")
    /\ [](WalkIsSound)
    /\ [](Expanded =>
            \A u \in Elements(loader.out) : \A v \in IncludedBy(u) : IncludedFirst(u, v))

\* C35, amended: the same, but an included file that leads back to the including unit (a
\* cycle, or a unit that includes itself) need not come before it.
C35_IncludedFirstUnlessCyclic ==
    /\ <>(Expanded \/ loader.pc = "error")
    /\ TooDeep ~> (loader.pc = "error")
    /\ [](WalkIsSound)
    /\ [](Expanded =>
            \A u \in Elements(loader.out) : \A v \in IncludedBy(u) :
               LeadsBack(v, u) \/ IncludedFirst(u, v))

\* a and b include each other: b, met first from a, is listed first, and a's rule wins
C35_Witness ==
    /\ loader.pc = "resolving"
    /\ pc = "done"
    /\ loader.opts.entry = "a"
    /\ "b" \in IncludedBy("a")
    /\ "a" \in IncludedBy("b")
    /\ loader.out = <<"b", "a">>
    /\ ValueAt(cfg, <<"a">>) = Str("a")
    /\ ValueAt(cfg, <<"b">>) = Str("a")

\* the test's chain of five files under maxIncludeDepth 3 aborts at the fifth
C35_ChainAborts ==
    (disk = ChainDisk /\ loader.opts.entry = "a" /\ loader.opts.maxIncludeDepth = 3
     /\ loader.pc \in {"expanded", "error"})
    => (loader.pc = "error" /\ loader.error.file = "e")

----------------------------------------------------------------------------
(* C36 *)

\* the units, in the order loadColony parses them, that declare a default for d
Declaring(d) == {i \in 1..Len(loader.out) : d \in DOMAIN disk[loader.out[i]].envDefaults}

\* the default of the last unit that declares one
Declared(d) ==
    disk[loader.out[CHOOSE i \in Declaring(d) : \A j \in Declaring(d) : j <= i]].envDefaults[d]

\* the built-in default: NODE_ENV or "dev" for env, none for another dimension
BuiltIn(d) == IF d = "env" THEN Coalesce(loader.nodeEnv, Str("dev")) ELSE Undef

\* the value of d in the context handed to resolveRules
Effective(d) == IF d \in DOMAIN ctx THEN ctx[d] ELSE Undef

\* C36: the context value of each dimension is that of opts.ctx if it is given there,
\* else the one declared by @envDefaults (the last unit's), else the built-in default.
C36_CtxPrecedence ==
    loader.pc = "resolving" =>
       \A d \in Elements(dims) :
          Effective(d) = IF d \in DOMAIN loader.opts.ctx THEN loader.opts.ctx[d]
                         ELSE IF Declaring(d) # {} THEN Declared(d)
                         ELSE BuiltIn(d)

\* the same for every dimension but env, and for env when no unit declares a default
C36_CtxPrecedenceButEnv ==
    loader.pc = "resolving" =>
       \A d \in Elements(dims) :
          (d # "env" \/ Declaring(d) = {} \/ d \in DOMAIN loader.opts.ctx) =>
             Effective(d) = IF d \in DOMAIN loader.opts.ctx THEN loader.opts.ctx[d]
                            ELSE IF Declaring(d) # {} THEN Declared(d)
                            ELSE BuiltIn(d)

\* @envDefaults env=prod with no env in opts.ctx and no NODE_ENV: the load resolves for dev
C36_EnvDefaultLost ==
    /\ pc = "done"
    /\ loader.pc = "resolving"
    /\ "env" \notin DOMAIN loader.opts.ctx
    /\ loader.nodeEnv = Undef
    /\ Declaring("env") # {}
    /\ Declared("env") = Str("prod")
    /\ ctx["env"] = Str("dev")
    /\ ValueAt(cfg, <<"k">>) # Str("prod")

----------------------------------------------------------------------------
(* C37 *)

\* the keys of the mappings of a tree, at every depth
RECURSIVE KeysIn(_)
KeysIn(tree) ==
    IF isPlainObject(tree)
    THEN DOMAIN tree.o \cup UNION {KeysIn(tree.o[k]) : k \in DOMAIN tree.o}
    ELSE {}

HasDot(k) == \E i \in 1..Len(k) : CharAt(k, i) = "."

\* C37: for every path p that keys() returns, get(p) is the value of the leaf stored at
\* that path and never undefined, also when a key segment held an escaped dot.
C37_KeysGetRoundTrip ==
    pc = "done" =>
       \A p \in collectKeys(cfg, "") :
          /\ getByPath(cfg, p) # Undef
          /\ \E q \in Leaves(cfg) : JoinDots(q) = p /\ getByPath(cfg, p) = ValueAt(cfg, q)

\* the same for the configs none of whose keys holds a dot
C37_RoundTripOfPlainKeys ==
    (pc = "done" /\ \A k \in KeysIn(cfg) : ~HasDot(k)) =>
       \A p \in collectKeys(cfg, "") :
          /\ getByPath(cfg, p) # Undef
          /\ \E q \in Leaves(cfg) : JoinDots(q) = p /\ getByPath(cfg, p) = ValueAt(cfg, q)

\* the rule a\.b = 1 alone: keys() is ["a.b"] and get("a.b") is undefined
C37_EscapedDotLost ==
    /\ pc = "done"
    /\ Len(rules) = 1
    /\ rules[1].keySegments = parseKeyPath("*.a\\.b")
    /\ collectKeys(cfg, "") = {"a.b"}
    /\ getByPath(cfg, "a.b") = Undef

----------------------------------------------------------------------------
(* C38 *)

\* the line of the first matching primary rule for the key path of the rule on line w
FirstLine(w) == CHOOSE i \in Candidates(rules[w]) : \A j \in Candidates(rules[w]) : i <= j

\* the key paths are applied in the order of their first matching primary rules
InFirstMatchOrder ==
    \A m, n \in 1..ki : m < n => FirstLine(applied[m]) < FirstLine(applied[n])

\* the winner on line w writes: it is no := that finds a value at its key path
Writes(w, tree) == ~(rules[w].op = ":=" /\ ValueAt(tree, KeyPathOf(rules[w])) # Undef)

\* the value the winner on line w leaves at its key path q
Left(w, before) ==
    IF rules[w].op = "|=" /\ isPlainObject(before) /\ isPlainObject(rules[w].value)
    THEN deepMerge(before, rules[w].value)
    ELSE rules[w].value

\* Applying the winner on line w to the tree before gives the tree after: the value at
\* its key path q is the winner's, whatever a rule for a longer key path wrote under it;
\* a mapping on the way to q keeps its other keys, and what is no mapping there is
\* replaced by a mapping with the one key that leads to q.
Decides(w, before, after) ==
    LET q == KeyPathOf(rules[w])
    IN /\ ValueAt(after, q) = Left(w, ValueAt(before, q))
       /\ \A n \in 0..(Len(q) - 1) :
             LET p == SubSeq(q, 1, n)
                 was == ValueAt(before, p)
                 is == ValueAt(after, p)
             IN /\ isPlainObject(is)
                /\ IF isPlainObject(was)
                   THEN /\ DOMAIN is.o = DOMAIN was.o \cup {q[n + 1]}
                        /\ \A x \in DOMAIN was.o \ {q[n + 1]} : is.o[x] = was.o[x]
                   ELSE DOMAIN is.o = {q[n + 1]}

\* C38: primary winners are applied a key path at a time, in the order of the key paths'
\* first matching primary rules; the winner applied later decides the part of the tree
\* it shares with one applied earlier: a parent's = replaces what a child wrote, a child
\* writes into the parent's mapping or replaces the parent's value that is no mapping.
C38_LaterAppliedDecides ==
    /\ [](Running => InFirstMatchOrder)
    /\ [][(pc = "primary" /\ ki' = ki + 1) =>
            LET w == applied'[ki']
            IN IF Writes(w, out) THEN Decides(w, out, out') ELSE out' = out]_vars

\* a.b = 11 on line 1, a = { d: 12 } on line 2 and prod.a.b |= { e: 13 } on line 3: a.b is
\* applied first with the winner of line 3, then a replaces what it wrote
C38_Witness ==
    /\ pc = "done"
    /\ Len(rules) = 3
    /\ KeyPathOf(rules[1]) = <<"a", "b">> /\ rules[1].op = "="
    /\ KeyPathOf(rules[2]) = <<"a">> /\ rules[2].op = "="
    /\ applied = <<3, 2>>
    /\ cfg = Obj1("a", Obj1("d", Num(12)))

\* a = 11, then a.b = 12: the child replaces the parent's number by a mapping
C38_ChildReplaces ==
    /\ pc = "done"
    /\ Len(rules) = 2
    /\ rules[1].value = Num(11)
    /\ applied = <<1, 2>>
    /\ cfg = Obj1("a", Obj1("b", Num(12)))

----------------------------------------------------------------------------
(* C39 *)

\* the n-th call is a set of a key that the cache holds
SetOfPresent(n) == opLog[n].op = "set" /\ opLog[n].key \in EntryKeys(opLog[n].before)

\* the n-th call leaves every key in the cache, the entry of its own key with the value
\* and the expiry it was given and every other entry as it was
ReplacesInPlace(n) ==
    /\ EntryKeys(opLog[n].after) = EntryKeys(opLog[n].before)
    /\ \A i \in 1..Len(opLog[n].after) :
          LET e == opLog[n].after[i]
          IN IF e.key = opLog[n].key
             THEN e.value = opLog[n].value /\ e.expires = opLog[n].at + opLog[n].ttl
             ELSE \E j \in 1..Len(opLog[n].before) : opLog[n].before[j] = e

\* C39: a set of a key that is present replaces the key's value and expiry and evicts no
\* other key, also at capacity: every key present before the call is present after it.
C39_ReplacingEvictsNothing ==
    \A n \in 1..Len(opLog) : SetOfPresent(n) => ReplacesInPlace(n)

\* the same when the cache is below capacity, or the key set is the first of the cache
C39_ReplacingEvictsNothingElse ==
    \A n \in 1..Len(opLog) :
       (SetOfPresent(n) /\ (~FullAt(n) \/ Head(opLog[n].before).key = opLog[n].key))
       => ReplacesInPlace(n)

\* a cache of size 2 holds AWS:db and AWS:none; AWS:none is set again and AWS:db is gone
C39_ReplacingEvicts ==
    /\ cache.maxSize = 2
    /\ Len(opLog) = 3
    /\ opLog[3].op = "set" /\ opLog[3].key = "AWS:none"
    /\ EntryKeys(opLog[3].before) = {"AWS:db", "AWS:none"}
    /\ EntryKeys(cache.entries) = {"AWS:none"}

----------------------------------------------------------------------------
(* C40 *)

\* the text s holds, from position i on, a span that placeholder substitution leaves as
\* it is for being secret-shaped
RECURSIVE KeptIn(_, _)
KeptIn(s, i) ==
    IF i > Len(s) THEN FALSE
    ELSE IF SpanAt(s, i)
    THEN LET q == SpanEnd(s, i)
             e == trim(SubSeq(s, i + 2, q - 1))
         IN (~Recognised(e) /\ HasProviderShape(e)) \/ KeptIn(s, q + 1)
    ELSE KeptIn(s, i + 1)

HoldsKept(tree) == \E t \in BagToSet(StringLeaves(tree)) : KeptIn(t, 1)

\* call c is the run of secret substitution on the tree placeholder substitution returned
AfterPlaceholders(c) == HasReturned(c) /\ pc = "done" /\ calls[c].value = cfg

\* C40: every span that placeholder substitution leaves as secret-shaped is replaced by
\* secret substitution, by a value or by the empty string: once both stages have run,
\* the tree holds no such span.
C40_KeptSpansAreReplaced ==
    \A c \in 1..Len(calls) : AfterPlaceholders(c) => ~HoldsKept(calls[c].result)

\* the same for the spans that RX_SECRET matches: they are all replaced
C40_MatchedSpansAreReplaced ==
    \A c \in 1..Len(calls) : AfterPlaceholders(c) => ~HoldsSecret(calls[c].result)

\* ${ AWS:db } goes through both stages as it is, and no warning tells of it
C40_PaddedSpanLeft ==
    /\ Len(rules) = 1
    /\ Len(calls) >= 1
    /\ AfterPlaceholders(1)
    /\ out.o["k"] = Str("${ AWS:db }")
    /\ calls[1].result.o["k"] = Str("${ AWS:db }")
    /\ warnings = EmptyBag
    /\ calls[1].warnings = EmptyBag

\* so does ${A:}, a prefix with an empty key
C40_EmptyKeyLeft ==
    /\ Len(rules) = 1
    /\ Len(calls) >= 1
    /\ AfterPlaceholders(1)
    /\ calls[1].result.o["k"] = Str("${A:}")
    /\ warnings = EmptyBag
    /\ calls[1].warnings = EmptyBag

====
